---- MODULE Spec2Model ----
(***************************************************************************)
(* Model of the server function supabase/functions/generate-mcp/index.ts:  *)
(* the serve handler, crawlApiDocumentation with its three phases,         *)
(* fetchWithTimeout's budget gate, the OpenAI enhancement race and the     *)
(* module-level variables startTime and urlCache.                          *)
(*                                                                         *)
(* One invocation of the handler is modelled step by step; an action is    *)
(* the synchronous code between two awaits.  Requests handled concurrently *)
(* by the same instance are modelled by their writes to the module-level   *)
(* variables (the Other... actions).                                       *)
(***************************************************************************)
EXTENDS Integers, Sequences, FiniteSets, TLC

\* ---------------------------------------------------------------- constants
GLOBAL_TIMEOUT == 30000
MAX_PAGES == 5
MAX_PARALLEL == 2
OPENAI_TIMEOUT == 5000
TIMEOUT_BUFFER == 5000
GLOBAL_TIMER_BUFFER == 1000
DIRECT_SPEC_LIMIT == 3
SUFFICIENT_ENDPOINTS == 5
MAX_LINKS_SCANNED == 10
MAX_NEW_URLS_PER_PAGE == 2
MAX_ENHANCED == 20

\* ------------------------------------------------------------------- bounds
\* The clock advances in steps of TickMs, at most MaxTicks times.
TickMs == 26000
MaxTicks == 2
\* Writes to the module-level variables by concurrently handled requests.
MaxOtherOps == 1

\* ------------------------------------------------------------ URLs and site
\* A URL string in parsed form; scheme "" stands for a string that
\* new URL() rejects.  A hostname is its sequence of dot-separated labels.
HostA == <<"api", "example", "com">>
HostEvil == <<"evil", "example", "org">>
HostLocal == <<"localhost">>
NoHost == <<>>

Url(s, h, p) == [scheme |-> s, host |-> h, path |-> p]
NoUrl == Url("", NoHost, "")
NotAUrl == Url("", NoHost, "not a url")

\* A relative href (an absolute path on the page's own host).
Rel(p) == Url("", NoHost, p)

\* new URL(href, base).href
NewURL(href, base) ==
    IF href.scheme # "" THEN href ELSE Url(base.scheme, base.host, href.path)

\* new URL(u) throws a TypeError
UrlThrows(u) == u.scheme = ""

Hostname(u) == u.host

\* new URL(x).hostname === baseHost
SameHostAlways(u, baseHost) == TRUE
SameHost(u, baseHost) == Hostname(u) = baseHost

IsValidUrl(u) ==
    IF UrlThrows(u) THEN FALSE ELSE u.scheme \in {"https", "http"}

\* hostname.startsWith(prefix) for a prefix of whole labels each followed by
\* a dot, e.g. '192.168.' is <<"192", "168">>
StartsWithLabels(h, pre) ==
    /\ Len(h) > Len(pre)
    /\ \A i \in 1..Len(pre) : h[i] = pre[i]

IsSafeUrlNoLinkLocal(u) ==
    IF UrlThrows(u) THEN FALSE
    ELSE LET hostname == Hostname(u) IN
         IF \/ hostname = <<"localhost">>
            \/ StartsWithLabels(hostname, <<"127">>)
            \/ StartsWithLabels(hostname, <<"10">>)
            \/ StartsWithLabels(hostname, <<"192", "168">>)
         THEN FALSE
         ELSE TRUE

IsSafeUrl(u) ==
    IF UrlThrows(u) THEN FALSE
    ELSE LET hostname == Hostname(u) IN
         IF \/ hostname = <<"localhost">>
            \/ StartsWithLabels(hostname, <<"127">>)
            \/ StartsWithLabels(hostname, <<"10">>)
            \/ StartsWithLabels(hostname, <<"192", "168">>)
            \/ StartsWithLabels(hostname, <<"169", "254">>)
         THEN FALSE
         ELSE TRUE

Endpoint(m, p, s) == [method |-> m, path |-> p, summary |-> s]

\* What the site serves at a path, in the form the parsers reduce it to:
\* ok is response.ok, ctype the content-type header, kind "spec" for text
\* that JSON.parse accepts as an OpenAPI document, endpoints what the parser
\* for that kind extracts, hrefs the href attributes in document order.
Page(ok, ctype, kind, eps, hrefs) ==
    [ok |-> ok, ctype |-> ctype, kind |-> kind, endpoints |-> eps, hrefs |-> hrefs]

Content(path) ==
    CASE path = "/" ->
           Page(TRUE, "text/html", "html", <<>>,
                <<Rel("/about"), Url("https", HostEvil, "/api/x"),
                  Rel("/docs/guide"), Rel("/openapi.json"), Rel("/docs/late")>>)
      [] path = "/docs/guide" ->
           Page(TRUE, "text/html", "html",
                <<Endpoint("GET", "/users", "html"),
                  Endpoint("DELETE", "/users", "html")>>,
                <<Rel("/docs/guide"), Rel("/static/api-docs.js"),
                  Rel("/api/v1"), Rel("/docs/a")>>)
      [] path = "/docs/a" ->
           Page(TRUE, "text/html", "html", <<>>, <<Rel("/docs/b"), Rel("/")>>)
      [] path = "/docs/b" ->
           Page(TRUE, "text/html", "html", <<>>, <<>>)
      [] path = "/api/v1" ->
           Page(TRUE, "text/html", "html", <<>>, <<Rel("/docs/c")>>)
      [] path = "/openapi.json" ->
           Page(TRUE, "application/json", "spec",
                <<Endpoint("GET", "/users", "spec"),
                  Endpoint("POST", "/users", "spec")>>, <<>>)
      [] path = "/swagger.json" ->
           Page(TRUE, "application/json", "spec",
                <<Endpoint("GET", "/users", "spec"),
                  Endpoint("GET", "/orders", "spec"),
                  Endpoint("POST", "/orders", "spec")>>, <<>>)
      [] path = "/api" ->
           Page(TRUE, "text/html", "html", <<>>, <<>>)
      [] OTHER -> Page(FALSE, "text/html", "html", <<>>, <<>>)

\* href.toLowerCase().includes(keyword) for some keyword of apiKeywords
HasApiKeyword(href) ==
    href.path \in {"/api/x", "/docs/guide", "/openapi.json", "/docs/late",
                   "/static/api-docs.js", "/api/v1", "/docs/a", "/docs/b",
                   "/docs/c", "/swagger.json", "/api-docs/swagger.json",
                   "/docs/openapi.json", "/api/openapi.json", "/api/v2"}

\* the extension and 'download' / 'static/' / 'assets/' tests of shouldSkipUrl
OnSkipList(u) == u.path \in {"/static/api-docs.js"}

\* currentUrl.includes('.json') || '.yaml' || '.yml'
HasSpecExtension(u) ==
    u.path \in {"/openapi.json", "/swagger.json", "/api-docs/swagger.json",
                "/docs/openapi.json", "/api/openapi.json"}

\* ------------------------------------------------------------ pure helpers
Range(s) == {s[i] : i \in 1..Len(s)}

Min(a, b) == IF a < b THEN a ELSE b
Max(a, b) == IF a > b THEN a ELSE b

\* Array.prototype.slice(0, end)
Slice0(s, end) ==
    LET e == IF end < 0 THEN Max(Len(s) + end, 0) ELSE Min(end, Len(s))
    IN  SubSeq(s, 1, e)

\* Array.prototype.splice(0, n): the removed part and what stays
SpliceHeadNothing(s, n) == SubSeq(s, 1, 0)
SpliceHead(s, n) == SubSeq(s, 1, Min(n, Len(s)))

\* [...new Set(s)]: first occurrences, in order
RECURSIVE Unique(_)
Unique(s) ==
    IF s = <<>> THEN <<>>
    ELSE LET init == Unique(SubSeq(s, 1, Len(s) - 1))
             last == s[Len(s)]
         IN  IF last \in Range(init) THEN init ELSE Append(init, last)

RECURSIVE Flatten(_)
Flatten(ss) == IF ss = <<>> THEN <<>> ELSE Head(ss) \o Flatten(Tail(ss))

\* options.maxPages || MAX_PAGES, then Math.min(..., MAX_PAGES); 0 stands for
\* every falsy value of options.maxPages (absent, 0)
ClampMaxPagesNoMin(v) == IF v = 0 THEN MAX_PAGES ELSE v
ClampMaxPages(v) == Min(IF v = 0 THEN MAX_PAGES ELSE v, MAX_PAGES)

IsTimeoutApproachingAt(t, start) == (t - start) > (GLOBAL_TIMEOUT - TIMEOUT_BUFFER)

ShouldSkipUrl(u, cache) == u \in cache \/ OnSkipList(u)

\* parseApiSpec: JSON.parse and the openapi/swagger/info+paths tests
ParseApiSpec(c) == IF c.kind = "spec" THEN c.endpoints ELSE <<>>

\* the line parseApiSpec pushes to `logs` when JSON.parse throws
ParseApiSpecLogs(c) == IF c.kind = "spec" THEN <<>> ELSE <<"json_parsing_failed">>

\* parseHtmlForEndpoints
ParseHtmlForEndpoints(c) == IF c.kind = "html" THEN c.endpoints ELSE <<>>

\* -------------------------------------------------------------------- state
VARIABLES
    \* module-level variables of index.ts
    startTime, urlCache,
    \* the clock (Date.now()) and the budget of concurrent writes
    now, otherOps,
    \* the serve handler: its position, the request body, the time it began,
    \* `endpoints` after the race, the start of the enhancement, the response
    hs, url, optMaxPages, began, endpoints, sourceUrlsOut, enhAt, enhReply,
    resp,
    \* locals of crawlApiDocumentation and its position
    cs, maxPages, processedPages, allEndpoints, visitedUrls, sourceUrls,
    urlsToProcess, probes, batch, commonIdx, commonEndpoints,
    \* the `logs` array of crawlApiDocumentation, which is also the handler's
    \* `logs` once the crawl has won the race
    logs,
    \* observations: the network requests issued by the crawl, the URLs whose
    \* fetch failed, the URLs requested again after a failure, the URLs
    \* skipped on a cache hit alone, the number of URLs popped from the
    \* frontier, how the time budget stopped the invocation, and the crawl's
    \* log lines at the moment the race was decided
    requests, failed, retried, cacheSkipped, popped, stop, accumulated,
    \* a parser or helper applied on its own: the function and the arguments
    \* of its successive calls, the values returned so far, and the locals
    \* the last call ended with
    call, returned, locals

moduleVars == <<startTime, urlCache>>
handlerVars == <<hs, endpoints, sourceUrlsOut, enhAt, enhReply, resp>>
inputVars == <<url, optMaxPages, began>>
observed == <<requests, failed, retried, cacheSkipped, popped, stop, accumulated>>
crawlVars == <<cs, maxPages, processedPages, allEndpoints, visitedUrls,
               sourceUrls, urlsToProcess, probes, batch, commonIdx,
               commonEndpoints>>
callVars == <<call, returned, locals>>
vars == <<startTime, urlCache, now, otherOps, hs, url, optMaxPages, began,
          endpoints, sourceUrlsOut, enhAt, enhReply, resp, cs, maxPages,
          processedPages,
          allEndpoints, visitedUrls, sourceUrls, urlsToProcess, probes, batch,
          commonIdx, commonEndpoints, requests, failed, retried, cacheSkipped,
          popped, stop, logs, accumulated, call, returned, locals>>

\* --------------------------------------------------------------- inputs
DirectSpecPaths == <<"/openapi.json", "/swagger.json", "/api-docs/swagger.json",
                     "/docs/openapi.json", "/api/openapi.json">>

CommonApiPaths == <<"/api", "/api/v1", "/api/v2", "/v1", "/v2">>

\* the collaborator's answer to the enhancement request: net is FALSE when
\* fetch rejects, ok is response.ok, json tells what JSON.parse makes of the
\* cleaned message content, value is the parsed array
Reply(net, ok, json, value) == [net |-> net, ok |-> ok, json |-> json, value |-> value]

IsTimeoutApproaching == IsTimeoutApproachingAt(now, startTime)

\* a request leaving fetchWithTimeout for the network
Request(u, m, ph) ==
    [url |-> u, method |-> m, phase |-> ph,
     late |-> (now - began) > (GLOBAL_TIMEOUT - TIMEOUT_BUFFER)]

\* the locals of an extractor call: the `endpoints` array of the two
\* parseHtmlForEndpoints, the foundEndpoints and sampleSchemas maps of
\* parseHTMLDocumentation
NoLocals == [endpoints |-> <<>>, foundEndpoints |-> {}, sampleSchemas |-> {}]

\* the module-level variables as the module sets them, no request handled yet
ServerIdle ==
    /\ startTime = 0
    /\ urlCache = {}
    /\ now = 0
    /\ otherOps = 0
    /\ hs = "idle"
    /\ url = NoUrl
    /\ optMaxPages = 0
    /\ began = 0
    /\ endpoints = <<>>
    /\ sourceUrlsOut = <<>>
    /\ enhAt = 0
    /\ enhReply = Reply(FALSE, FALSE, "unset", <<>>)
    /\ resp = [status |-> 0, success |-> FALSE, error |-> "", endpoints |-> <<>>,
               tools |-> <<>>, timeoutReached |-> "absent", logs |-> <<>>,
               suggestions |-> FALSE]
    /\ cs = "none"
    /\ maxPages = 0
    /\ processedPages = 0
    /\ allEndpoints = <<>>
    /\ visitedUrls = {}
    /\ sourceUrls = <<>>
    /\ urlsToProcess = <<>>
    /\ probes = <<>>
    /\ batch = <<>>
    /\ commonIdx = 0
    /\ commonEndpoints = <<>>
    /\ requests = {}
    /\ failed = {}
    /\ retried = {}
    /\ cacheSkipped = {}
    /\ popped = 0
    /\ stop = [reason |-> "none", endpoints |-> <<>>]
    /\ logs = <<>>
    /\ accumulated = <<>>

Init ==
    /\ ServerIdle
    /\ call = [fn |-> "none", args |-> <<>>]
    /\ returned = <<>>
    /\ locals = NoLocals

\* ------------------------------------------------- generateMcp, enhancement
GenerateMcp(eps) ==
    [i \in 1..Len(eps) |->
        [method |-> eps[i].method, path |-> eps[i].path,
         description |-> eps[i].summary]]

\* the same-shape array a working collaborator returns for what it was sent
Enhanced(eps) ==
    [i \in 1..Len(eps) |-> [eps[i] EXCEPT !.summary = "enhanced"]]

EnhanceReplies(eps) ==
    { Reply(FALSE, FALSE, "none", <<>>),
      Reply(TRUE, FALSE, "none", <<>>),
      Reply(TRUE, TRUE, "invalid", <<>>),
      Reply(TRUE, TRUE, "object", <<>>),
      Reply(TRUE, TRUE, "array", <<>>),
      Reply(TRUE, TRUE, "array", Enhanced(Slice0(eps, MAX_ENHANCED))) }

EnhanceWithOpenAIAnyArray(eps, r) ==
    IF ~r.net \/ ~r.ok \/ r.json = "invalid" THEN eps
    ELSE IF r.json = "array" THEN r.value ELSE eps

\* enhanceWithOpenAI once the reply r has arrived (apiKey is present and eps
\* is not empty, both tested by the handler before the call)
EnhanceWithOpenAI(eps, r) ==
    IF ~r.net THEN eps                       \* fetch rejected: outer catch
    ELSE IF ~r.ok THEN eps                   \* throw new Error: outer catch
    ELSE IF r.json = "invalid" THEN eps      \* JSON.parse threw: inner catch
    ELSE IF r.json = "array" /\ Len(r.value) > 0 THEN r.value
    ELSE eps

\* the lines enhanceWithOpenAI pushes to `logs` after its first line, once
\* the reply r has arrived
EnhanceWithOpenAILogs(r) ==
    IF ~r.net \/ ~r.ok THEN <<"openai_error">>
    ELSE IF r.json = "invalid" THEN <<"openai_json_parse_error">>
    ELSE IF r.json = "array" /\ Len(r.value) > 0 THEN <<"openai_enhanced">>
    ELSE <<"openai_not_valid_array">>

\* ----------------------------------------------------- the handler's tail
\* lg is the `logs` of the body (<<>> when the body has none), sugg tells
\* whether the body has a `suggestions` list
Response(status, success, error, eps, timeoutReached, lg, sugg) ==
    [status |-> status, success |-> success, error |-> error,
     endpoints |-> eps, tools |-> GenerateMcp(eps),
     timeoutReached |-> timeoutReached, logs |-> lg, suggestions |-> sugg]

\* generateMcp and the success response
RespondSuccess(enhancedEndpoints, isTimeout, lg) ==
    /\ hs' = "responded"
    /\ resp' = Response(200, TRUE, "", enhancedEndpoints,
                        IF isTimeout THEN "true" ELSE "undefined",
                        Append(lg, "mcp_completed"), FALSE)

\* the value the timer of globalTimeoutPromise resolves with has its own
\* one-line `logs`; the handler pushes a second line
GlobalTimeoutLogs == <<"global_timeout_reached", "global_timed_out">>

\* the handler's `logs` after the race, up to its next await or its response
HandlerLogsAfterRace(eps, lg, isTimeout) ==
    IF Len(eps) = 0 THEN lg
    ELSE IF ~IsTimeoutApproaching /\ ~isTimeout
    THEN Append(lg, "openai_enhancing")
    ELSE Append(lg, "openai_skipped_time")

\* the handler after `await Promise.race([crawlPromise, globalTimeoutPromise])`
HandlerAfterRace(eps, srcs, lg, isTimeout) ==
    /\ endpoints' = eps
    /\ sourceUrlsOut' = srcs
    /\ IF Len(eps) = 0
       THEN /\ hs' = "responded"
            /\ resp' = Response(200, FALSE,
                                IF isTimeout THEN "timeout" ELSE "no_endpoints",
                                <<>>, "absent",
                                HandlerLogsAfterRace(eps, lg, isTimeout), TRUE)
            /\ UNCHANGED <<enhAt, enhReply>>
       ELSE IF ~IsTimeoutApproaching /\ ~isTimeout
       THEN /\ hs' = "enhancing"
            /\ enhAt' = now
            /\ UNCHANGED <<enhReply, resp>>
       ELSE /\ RespondSuccess(eps, isTimeout,
                              HandlerLogsAfterRace(eps, lg, isTimeout))
            /\ UNCHANGED <<enhAt, enhReply>>

\* crawlApiDocumentation returns; the race is decided unless the global
\* timeout promise has already won it
CrawlReturns(eps, srcs, lg) ==
    IF hs = "racing"
    THEN /\ HandlerAfterRace(eps, srcs, lg, FALSE)
         /\ logs' = HandlerLogsAfterRace(eps, lg, FALSE)
         /\ accumulated' = lg
    ELSE /\ logs' = lg
         /\ UNCHANGED <<handlerVars, accumulated>>

\* ------------------------------------------------ crawlApiDocumentation
Task(u, st, eps, newUrls) ==
    [url |-> u, st |-> st, endpoints |-> eps, newUrls |-> newUrls]

\* Promise.allSettled(tasks) has resolved
AnySettled(tasks) == \E i \in 1..Len(tasks) : tasks[i].st = "done"
AllDone(tasks) == \A i \in 1..Len(tasks) : tasks[i].st = "done"

\* the seed's hostname
baseHost == Hostname(url)

\* One batch task from its start to its first await: the checks, the two
\* add() calls and fetchWithTimeout's budget gate.  acc carries what the
\* tasks started before it have changed.
StartTask(u, acc) ==
    IF u \in acc.visited \/ ShouldSkipUrl(u, acc.cache)
    THEN [acc EXCEPT !.tasks = Append(@, Task(u, "done", <<>>, <<>>)),
                     !.cacheSkipped =
                         IF u \in acc.cache /\ u \notin acc.visited /\ ~OnSkipList(u)
                         THEN @ \cup {u} ELSE @]
    ELSE IF ~IsValidUrl(u) \/ ~IsSafeUrl(u)
    THEN [acc EXCEPT !.tasks = Append(@, Task(u, "done", <<>>, <<>>)),
                     !.logs = Append(@, "skipping_invalid_unsafe")]
    ELSE IF ~SameHost(u, baseHost)
    THEN [acc EXCEPT !.tasks = Append(@, Task(u, "done", <<>>, <<>>))]
    ELSE IF IsTimeoutApproaching
    THEN [acc EXCEPT !.cache = @ \cup {u},
                     !.visited = @ \cup {u},
                     !.tasks = Append(@, Task(u, "done", <<>>, <<>>)),
                     !.logs = Append(@, "error_processing")]
    ELSE [acc EXCEPT !.cache = @ \cup {u},
                     !.visited = @ \cup {u},
                     !.tasks = Append(@, Task(u, "inflight", <<>>, <<>>)),
                     !.requests = @ \cup {Request(u, "GET", "loop")},
                     !.retried = IF u \in failed THEN @ \cup {u} ELSE @]

RECURSIVE StartTasks(_, _)
StartTasks(b, acc) ==
    IF b = <<>> THEN acc ELSE StartTasks(Tail(b), StartTask(Head(b), acc))

\* the link discovery of one HTML page
RECURSIVE NewUrlsOf(_, _)
NewUrlsOf(hrefs, currentUrl) ==
    IF hrefs = <<>> THEN <<>>
    ELSE LET href == Head(hrefs)
             fullUrl == NewURL(href, currentUrl)
             rest == NewUrlsOf(Tail(hrefs), currentUrl)
         IN  IF /\ HasApiKeyword(href)
                /\ SameHost(fullUrl, baseHost)
                /\ fullUrl \notin visitedUrls
             THEN <<fullUrl>> \o rest
             ELSE rest

\* a batch task after its fetch resolved with content c
TaskResult(currentUrl, c) ==
    IF c.ctype = "application/json" \/ HasSpecExtension(currentUrl)
    THEN Task(currentUrl, "done", ParseApiSpec(c), <<>>)
    ELSE Task(currentUrl, "done", ParseHtmlForEndpoints(c),
              IF processedPages < maxPages - 1
              THEN NewUrlsOf(Slice0(c.hrefs, MAX_LINKS_SCANNED), currentUrl)
              ELSE <<>>)

\* the lines a batch task pushes to `logs` after its fetch resolved
TaskLogs(currentUrl, c) ==
    IF c.ctype = "application/json" \/ HasSpecExtension(currentUrl)
    THEN <<"processed">> \o ParseApiSpecLogs(c) \o <<"spec_file">>
    ELSE <<"processed">>

\* the merge loop over batchResults: the frontier after the pushes
RECURSIVE PushNewUrls(_, _)
PushNewUrls(frontier, tasks) ==
    IF tasks = <<>> THEN frontier
    ELSE PushNewUrls(frontier \o Slice0(Head(tasks).newUrls, MAX_NEW_URLS_PER_PAGE),
                     Tail(tasks))

NotVisited(u) == u \notin visitedUrls

\* uniqueUrls.slice(0, maxPages - processedPages) after the merge
TrimFrontierNoSlice(frontier, processed) ==
    Unique(SelectSeq(frontier, NotVisited))
TrimFrontier(frontier, processed) ==
    Slice0(Unique(SelectSeq(frontier, NotVisited)), maxPages - processed)

\* tryCommonApiPaths from path number k on, with the endpoints found so far,
\* up to the next await or to its return
TryCommonFrom(k, ceps, lg) ==
    IF k > Len(CommonApiPaths) \/ IsTimeoutApproaching
    THEN \* every remaining fetchWithTimeout throws at the gate
         /\ cs' = "returned"
         /\ allEndpoints' = ceps
         /\ commonIdx' = k
         /\ commonEndpoints' = ceps
         /\ UNCHANGED <<requests, retried>>
         /\ CrawlReturns(ceps, visitedUrls, lg \o <<"completed", "total_time">>)
    ELSE LET apiUrl == NewURL(Rel(CommonApiPaths[k]), url) IN
         /\ cs' = "phase3"
         /\ allEndpoints' = <<>>
         /\ commonIdx' = k
         /\ commonEndpoints' = ceps
         /\ requests' = requests \cup {Request(apiUrl, "HEAD", "common")}
         /\ retried' = IF apiUrl \in failed THEN retried \cup {apiUrl} ELSE retried
         /\ logs' = lg
         /\ UNCHANGED <<handlerVars, accumulated>>

\* The while condition and what follows it without an await: the start of
\* the next batch, or phase 3, or the return.
LoopHead(eps, frontier, processed, lg) ==
    IF Len(frontier) > 0 /\ processed < maxPages /\ ~IsTimeoutApproaching
    THEN LET b == SpliceHead(frontier, MAX_PARALLEL)
             acc == StartTasks(b, [visited |-> visitedUrls, cache |-> urlCache,
                                   tasks |-> <<>>, requests |-> requests,
                                   retried |-> retried,
                                   cacheSkipped |-> cacheSkipped,
                                   logs |-> lg])
         IN  /\ cs' = "batch"
             /\ batch' = acc.tasks
             /\ urlsToProcess' = SubSeq(frontier, Min(MAX_PARALLEL, Len(frontier)) + 1, Len(frontier))
             /\ visitedUrls' = acc.visited
             /\ urlCache' = acc.cache
             /\ requests' = acc.requests
             /\ retried' = acc.retried
             /\ cacheSkipped' = acc.cacheSkipped
             /\ popped' = popped + Len(b)
             /\ allEndpoints' = eps
             /\ processedPages' = processed
             /\ logs' = acc.logs
             /\ UNCHANGED <<commonIdx, commonEndpoints, stop, handlerVars,
                            accumulated>>
    ELSE /\ stop' = IF /\ Len(frontier) > 0 /\ processed < maxPages
                       /\ stop.reason = "none"
                    THEN [reason |-> "loop", endpoints |-> eps]
                    ELSE stop
         /\ urlsToProcess' = frontier
         /\ processedPages' = processed
         /\ batch' = <<>>
         /\ UNCHANGED <<visitedUrls, urlCache, cacheSkipped, popped>>
         /\ IF Len(eps) = 0 /\ ~IsTimeoutApproaching
            THEN TryCommonFrom(1, <<>>, Append(lg, "phase3"))
            ELSE /\ cs' = "returned"
                 /\ allEndpoints' = eps
                 /\ UNCHANGED <<commonIdx, commonEndpoints, requests, retried>>
                 /\ CrawlReturns(eps, visitedUrls,
                                 lg \o <<"completed", "total_time">>)

\* ---------------------------------------------------------------- actions
\* directSpecUrls, filtered to the seed's host and limited to the first three
DirectSpecUrls(seed) ==
    LET all == [i \in 1..Len(DirectSpecPaths) |->
                   NewURL(Rel(DirectSpecPaths[i]), seed)]
        OnSeedHost(specUrl) == SameHost(specUrl, Hostname(seed))
    IN  Slice0(SelectSeq(all, OnSeedHost), DIRECT_SPEC_LIMIT)

\* A request arrives: the handler up to `await Promise.race`, with the start
\* of crawlApiDocumentation up to `await Promise.allSettled` of phase 1.
ServeBegin(u, hasKey, mp) ==
    /\ UNCHANGED callVars
    /\ hs = "idle"
    /\ startTime' = now
    /\ began' = now
    /\ url' = u
    /\ optMaxPages' = mp
    /\ UNCHANGED <<now, otherOps, endpoints, sourceUrlsOut, enhAt, enhReply,
                   processedPages, allEndpoints, visitedUrls, sourceUrls,
                   batch, commonIdx, commonEndpoints, failed, retried,
                   cacheSkipped, popped, stop, accumulated>>
    /\ IF u = NoUrl \/ ~hasKey
       THEN \* 400: url and key are required
            /\ hs' = "responded"
            /\ resp' = Response(400, FALSE, "missing_input", <<>>, "absent",
                                <<>>, FALSE)
            /\ UNCHANGED <<urlCache, cs, maxPages, urlsToProcess, probes,
                           requests, logs>>
       ELSE /\ maxPages' = ClampMaxPages(ClampMaxPages(mp))
            /\ urlsToProcess' = <<u>>
            /\ IF UrlThrows(u)
               THEN \* new URL(url) throws; the handler's catch answers 500
                    /\ cs' = "threw"
                    /\ hs' = "responded"
                    /\ resp' = Response(500, FALSE, "exception", <<>>, "absent",
                                        <<>>, FALSE)
                    /\ logs' = <<"starting", "max_pages">>
                    /\ UNCHANGED <<urlCache, probes, requests>>
               ELSE LET specUrls == DirectSpecUrls(u)
                        gated == IsTimeoutApproachingAt(now, startTime')
                    IN  /\ cs' = "phase1"
                        /\ hs' = "racing"
                        /\ logs' = <<"starting", "max_pages", "phase1">>
                        /\ urlCache' = {}
                        /\ probes' = [i \in 1..Len(specUrls) |->
                                        Task(specUrls[i],
                                             IF gated THEN "done" ELSE "inflight",
                                             <<>>, <<>>)]
                        /\ requests' = IF gated THEN requests
                                       ELSE requests \cup
                                            {[url |-> specUrls[i], method |-> "GET",
                                              phase |-> "direct", late |-> FALSE] :
                                                i \in 1..Len(specUrls)}
                        /\ UNCHANGED resp

\* the fetch of direct spec probe i settles
ProbeComplete(i, out) ==
    /\ UNCHANGED callVars
    /\ cs = "phase1"
    /\ i \in 1..Len(probes)
    /\ probes[i].st = "inflight"
    /\ LET specUrl == probes[i].url
           c == Content(specUrl.path)
           parsed == out = "response" /\ c.ok
           eps == IF parsed THEN ParseApiSpec(c) ELSE <<>>
       IN  /\ probes' = [probes EXCEPT ![i] = Task(specUrl, "done", eps, <<>>)]
           /\ sourceUrls' = IF Len(eps) > 0 THEN Append(sourceUrls, specUrl)
                            ELSE sourceUrls
           /\ logs' = logs \o (IF parsed THEN ParseApiSpecLogs(c) ELSE <<>>)
                           \o (IF Len(eps) > 0 THEN <<"found_direct">> ELSE <<>>)
           /\ failed' = IF out = "error" THEN failed \cup {specUrl} ELSE failed
    /\ UNCHANGED <<moduleVars, now, otherOps, handlerVars, inputVars, cs,
                   maxPages, processedPages, allEndpoints, visitedUrls,
                   urlsToProcess, batch, commonIdx, commonEndpoints, requests,
                   retried, cacheSkipped, popped, stop, accumulated>>

\* the results of the fulfilled entries of Promise.allSettled, concatenated
TaskEndpointsUnlessFailed(tasks) ==
    IF \E i \in 1..Len(tasks) : tasks[i].url \in failed THEN <<>>
    ELSE Flatten([i \in 1..Len(tasks) |-> tasks[i].endpoints])
TaskEndpoints(tasks) == Flatten([i \in 1..Len(tasks) |-> tasks[i].endpoints])

\* Promise.allSettled of phase 1 resolves: the concat, the early return or
\* the first evaluation of the while condition
Phase1Join ==
    /\ UNCHANGED callVars
    /\ cs = "phase1"
    /\ AllDone(probes)
    /\ LET eps == allEndpoints \o TaskEndpoints(probes) IN
       IF Len(eps) >= SUFFICIENT_ENDPOINTS
       THEN /\ cs' = "returned"
            /\ allEndpoints' = eps
            /\ CrawlReturns(eps, Range(sourceUrls), Append(logs, "sufficient"))
            /\ UNCHANGED <<batch, urlsToProcess, visitedUrls, urlCache, requests,
                           retried, cacheSkipped, popped, processedPages,
                           commonIdx, commonEndpoints, stop>>
       ELSE LoopHead(eps, urlsToProcess, processedPages, Append(logs, "phase2"))
    /\ UNCHANGED <<startTime, now, otherOps, inputVars, maxPages, sourceUrls,
                   probes, failed>>

\* the fetch of batch task i settles
TaskComplete(i, out) ==
    /\ UNCHANGED callVars
    /\ cs = "batch"
    /\ i \in 1..Len(batch)
    /\ batch[i].st = "inflight"
    /\ LET currentUrl == batch[i].url IN
       IF out = "error"
       THEN /\ batch' = [batch EXCEPT ![i] = Task(currentUrl, "done", <<>>, <<>>)]
            /\ failed' = failed \cup {currentUrl}
            /\ logs' = Append(logs, "error_processing")
            /\ UNCHANGED sourceUrls
       ELSE /\ batch' = [batch EXCEPT ![i] =
                            TaskResult(currentUrl, Content(currentUrl.path))]
            /\ sourceUrls' = Append(sourceUrls, currentUrl)
            /\ logs' = logs \o TaskLogs(currentUrl, Content(currentUrl.path))
            /\ UNCHANGED failed
    /\ UNCHANGED <<moduleVars, now, otherOps, handlerVars, inputVars, cs,
                   maxPages, processedPages, allEndpoints, visitedUrls,
                   urlsToProcess, probes, commonIdx, commonEndpoints, requests,
                   retried, cacheSkipped, popped, stop, accumulated>>

\* Promise.allSettled of the batch resolves: the merge, the frontier trim and
\* the next evaluation of the while condition
BatchJoin ==
    /\ UNCHANGED callVars
    /\ cs = "batch"
    /\ AllDone(batch)
    /\ LET eps == allEndpoints \o TaskEndpoints(batch)
           processed == processedPages + Len(batch)
           frontier == TrimFrontier(PushNewUrls(urlsToProcess, batch), processed)
       IN  LoopHead(eps, frontier, processed, logs)
    /\ UNCHANGED <<startTime, now, otherOps, inputVars, maxPages, sourceUrls,
                   probes, failed>>

\* the HEAD probe of common path number commonIdx settles
CommonComplete(out) ==
    /\ UNCHANGED callVars
    /\ cs = "phase3"
    /\ LET path == CommonApiPaths[commonIdx]
           apiUrl == NewURL(Rel(path), url)
           found == out = "response" /\ Content(path).ok
           ceps == IF found
                   THEN Append(commonEndpoints, Endpoint("GET", path, "common"))
                   ELSE commonEndpoints
       IN  /\ failed' = IF out = "error" THEN failed \cup {apiUrl} ELSE failed
           /\ TryCommonFrom(commonIdx + 1, ceps,
                            IF found THEN Append(logs, "found_working") ELSE logs)
    /\ UNCHANGED <<moduleVars, now, otherOps, inputVars, maxPages,
                   processedPages, visitedUrls, sourceUrls, urlsToProcess,
                   probes, batch, cacheSkipped, popped, stop>>

CrawlRunning == cs \in {"phase1", "batch", "phase3"}

\* the timer of globalTimeoutPromise fires while the crawl is still pending
GlobalTimeout ==
    /\ UNCHANGED callVars
    /\ hs = "racing"
    /\ now - began >= GLOBAL_TIMEOUT - GLOBAL_TIMER_BUFFER
    /\ HandlerAfterRace(<<>>, {}, GlobalTimeoutLogs, TRUE)
    /\ stop' = IF stop.reason = "none"
               THEN [reason |-> "global", endpoints |-> allEndpoints]
               ELSE stop
    /\ accumulated' = logs
    /\ UNCHANGED <<moduleVars, now, otherOps, inputVars, crawlVars, requests,
                   failed, retried, cacheSkipped, popped, logs>>

\* the collaborator's reply arrives before the enhancement timer fires
EnhanceComplete(r) ==
    /\ UNCHANGED callVars
    /\ hs = "enhancing"
    /\ enhReply' = r
    /\ logs' = logs \o EnhanceWithOpenAILogs(r) \o <<"openai_completed">>
    /\ RespondSuccess(EnhanceWithOpenAI(endpoints, r), FALSE, logs')
    /\ UNCHANGED <<moduleVars, now, otherOps, inputVars, crawlVars, observed,
                   endpoints, sourceUrlsOut, enhAt>>

\* the enhancement timer rejects first; the handler's catch keeps `endpoints`
EnhanceTimeout ==
    /\ UNCHANGED callVars
    /\ hs = "enhancing"
    /\ now - enhAt >= OPENAI_TIMEOUT
    /\ enhReply' = Reply(FALSE, FALSE, "timeout", <<>>)
    /\ logs' = Append(logs, "openai_skipped_error")
    /\ RespondSuccess(endpoints, FALSE, logs')
    /\ UNCHANGED <<moduleVars, now, otherOps, inputVars, crawlVars, observed,
                   endpoints, sourceUrlsOut, enhAt>>

\* time passes while the invocation waits
Tick ==
    /\ UNCHANGED callVars
    /\ hs \in {"racing", "enhancing"} \/ CrawlRunning
    /\ now < MaxTicks * TickMs
    /\ now' = now + TickMs
    /\ UNCHANGED <<moduleVars, otherOps, handlerVars, inputVars, crawlVars,
                   observed, logs>>

\* Another request handled by the same instance while this crawl waits:
\* its `startTime = Date.now()`,
OtherServeBegin ==
    /\ UNCHANGED callVars
    /\ CrawlRunning
    /\ otherOps < MaxOtherOps
    /\ otherOps' = otherOps + 1
    /\ startTime' = now
    /\ UNCHANGED <<urlCache, now, handlerVars, inputVars, crawlVars, observed,
                   logs>>

\* its `urlCache.clear()`,
OtherCrawlStart ==
    /\ UNCHANGED callVars
    /\ CrawlRunning
    /\ otherOps < MaxOtherOps
    /\ otherOps' = otherOps + 1
    /\ urlCache' = {}
    /\ UNCHANGED <<startTime, now, handlerVars, inputVars, crawlVars, observed,
                   logs>>

\* and its `urlCache.add(currentUrl)` for a URL that passed its checks.
OtherCrawlVisit(u) ==
    /\ UNCHANGED callVars
    /\ CrawlRunning
    /\ otherOps < MaxOtherOps
    /\ ~ShouldSkipUrl(u, urlCache)
    /\ IsValidUrl(u) /\ IsSafeUrl(u)
    /\ otherOps' = otherOps + 1
    /\ urlCache' = urlCache \cup {u}
    /\ UNCHANGED <<startTime, now, handlerVars, inputVars, crawlVars, observed,
                   logs>>

FetchOutcomes == {"response", "error"}

Next ==
    \/ \E u \in {Url("https", HostA, "/"), Url("http", HostLocal, "/"), NotAUrl, NoUrl},
          hasKey \in BOOLEAN,
          mp \in {0, -1, 2, 7} : \* options.maxPages (0: absent or 0)
            ServeBegin(u, hasKey, mp)
    \/ \E i \in 1..DIRECT_SPEC_LIMIT, out \in FetchOutcomes : ProbeComplete(i, out)
    \/ Phase1Join
    \/ \E i \in 1..MAX_PARALLEL, out \in FetchOutcomes : TaskComplete(i, out)
    \/ BatchJoin
    \/ \E out \in FetchOutcomes : CommonComplete(out)
    \/ GlobalTimeout
    \/ \E r \in EnhanceReplies(endpoints) : EnhanceComplete(r)
    \/ EnhanceTimeout
    \/ Tick
    \/ OtherServeBegin
    \/ OtherCrawlStart
    \/ \* URLs that some crawl can reach its urlCache.add with: valid, safe,
       \* not on the skip list
       \E u \in {v \in {Url("https", HostA, p) :
                            p \in {"/", "/docs/guide", "/openapi.json"}} :
                    IsValidUrl(v) /\ IsSafeUrl(v) /\ ~OnSkipList(v)} :
           OtherCrawlVisit(u)

Spec == Init /\ [][Next]_vars

\* ------------------------------------------- parsers applied on their own
\* everything but callVars
serverVars == <<moduleVars, now, otherOps, handlerVars, inputVars, crawlVars,
                observed, logs>>

\* the argument of the next call and whether there is one
HasNextArg == Len(returned) < Len(call.args)
NextArg == call.args[Len(returned) + 1]

\* ---- the safety filter: !isValidUrl(u) || !isSafeUrl(u) rejects
FilterCalls ==
    LET FilterHosts ==
            {HostA, HostLocal, <<"127", "0", "0", "1">>, <<"10", "1", "2", "3">>,
             <<"192", "168", "1", "1">>, <<"169", "254", "169", "254">>,
             <<"192", "169", "1", "1">>, <<"172", "16", "0", "1">>,
             <<"localhost", "example", "com">>, <<"10", "example", "com">>}
        FilterSchemes == {"http", "https", "ftp", "file"}
        FilterUrls ==
            {Url(s, h, p) : s \in FilterSchemes, h \in FilterHosts,
                            p \in {"/", "/x", "/a", "/docs"}}
            \cup {NotAUrl, Rel("/docs")}
    IN  {[fn |-> "safetyFilter", args |-> <<u>>] : u \in FilterUrls}

ApplySafetyFilter ==
    /\ call.fn = "safetyFilter"
    /\ HasNextArg
    /\ returned' = Append(returned, IsValidUrl(NextArg) /\ IsSafeUrl(NextArg))
    /\ UNCHANGED <<serverVars, call, locals>>

\* ---- the OpenAPI parsers
\* String.prototype.toUpperCase on the strings the documents use
ToUpperCase(k) ==
    CASE k = "get" -> "GET"
      [] k = "post" -> "POST"
      [] k = "delete" -> "DELETE"
      [] k = "trace" -> "TRACE"
      [] k = "parameters" -> "PARAMETERS"
      [] k = "summary" -> "SUMMARY"
      [] k = "x-codegen" -> "X-CODEGEN"
      [] OTHER -> k

\* String.prototype.toLowerCase on the same strings
ToLowerCase(k) ==
    CASE k = "GET" -> "get"
      [] k = "POST" -> "post"
      [] k = "DELETE" -> "delete"
      [] k = "TRACE" -> "trace"
      [] OTHER -> k

httpMethods == {"get", "post", "put", "delete", "patch", "head", "options", "trace"}

\* One entry of a path item: its key and the `typeof` of its value, with
\* "array" for an array (whose typeof is 'object' as well).
Entry(k, t) == [key |-> k, type |-> t]

MaxPaths == 2

\* JSON.parse of an OpenAPI document with its `paths` in document order
OpenApiDocs ==
    LET PathItems ==
            {<<>>,
             <<Entry("get", "object")>>,
             <<Entry("get", "object"), Entry("post", "object")>>,
             <<Entry("parameters", "array"), Entry("get", "object")>>,
             <<Entry("summary", "string"), Entry("delete", "object")>>,
             <<Entry("x-codegen", "object"), Entry("trace", "object")>>,
             <<Entry("get", "string")>>}
        PathNames == <<"/users", "/orders", "/items", "/pets">>
    IN
    UNION {{[basePath |-> "",
             paths |-> [i \in 1..n |-> [path |-> PathNames[i], item |-> f[i]]]] :
               f \in [1..n -> PathItems]} : n \in 0..MaxPaths}

\* index.ts: every entry of a path item whose value is an object
ParseOpenApiSpec(spec) ==
    LET OfItem(p) ==
            Flatten([j \in 1..Len(p.item) |->
                IF p.item[j].type \in {"object", "array"}
                THEN <<Endpoint(ToUpperCase(p.item[j].key),
                                spec.basePath \o p.path, "spec")>>
                ELSE <<>>])
    IN  Flatten([i \in 1..Len(spec.paths) |-> OfItem(spec.paths[i])])

\* McpBuilder.tsx: the entries whose key is one of httpMethods
ParseOpenAPISpec(spec) ==
    LET OfItem(p) ==
            Flatten([j \in 1..Len(p.item) |->
                IF /\ ToLowerCase(p.item[j].key) \in httpMethods
                   /\ p.item[j].type \in {"object", "array"}
                THEN <<Endpoint(ToUpperCase(p.item[j].key), p.path, "spec")>>
                ELSE <<>>])
    IN  Flatten([i \in 1..Len(spec.paths) |-> OfItem(spec.paths[i])])

OpenApiCalls ==
    {[fn |-> f, args |-> <<d>>] :
        f \in {"parseOpenApiSpec", "parseOpenAPISpec"}, d \in OpenApiDocs}

ApplyParseOpenApiSpec ==
    /\ call.fn = "parseOpenApiSpec"
    /\ HasNextArg
    /\ returned' = Append(returned, ParseOpenApiSpec(NextArg))
    /\ UNCHANGED <<serverVars, call, locals>>

ApplyParseOpenAPISpec ==
    /\ call.fn = "parseOpenAPISpec"
    /\ HasNextArg
    /\ returned' = Append(returned, ParseOpenAPISpec(NextArg))
    /\ UNCHANGED <<serverVars, call, locals>>

\* ---- the Postman parsers
\* A request URL of a collection.  form is "string" when request.url is a
\* string and "object" when it is the structured {raw, path, query}; raw is
\* the URL text, pathname what new URL(raw).pathname (or '/' + path.join('/'))
\* gives, query the keys of its query parameters.
PostmanUrl(form, raw, pathname, query) ==
    [form |-> form, raw |-> raw, pathname |-> pathname, query |-> query]

\* a leaf item; method "" stands for a request without `method`
Leaf(method, u) == [name |-> "request", request |-> [method |-> method, url |-> u]]

Leaves ==
    {Leaf("GET", PostmanUrl("string", "https://x/a/b?x=1", "/a/b", <<"x">>)),
     Leaf("get", PostmanUrl("object", "https://x/a/b?x=1", "/a/b", <<"x">>)),
     Leaf("", PostmanUrl("object", "https://x/c", "/c", <<>>)),
     Leaf("POST", PostmanUrl("string", "https://x/a/b", "/a/b", <<>>)),
     Leaf("GET", PostmanUrl("object", "https://x/", "/", <<>>))}

MaxFolderDepth == 2

RECURSIVE ItemsAt(_)
ItemsAt(d) ==
    IF d = 0 THEN Leaves
    ELSE ItemsAt(d - 1) \cup {[name |-> "folder", item |-> <<x>>] : x \in ItemsAt(d - 1)}

PostmanCollections ==
    {[item |-> <<x>>] : x \in ItemsAt(MaxFolderDepth)}
    \cup {[item |-> <<x, y>>] : x \in ItemsAt(MaxFolderDepth), y \in Leaves}

PostmanEndpoint(m, p, params) ==
    [method |-> m, path |-> p, summary |-> "postman", parameters |-> params]

QueryParameters(query) == [i \in 1..Len(query) |-> [name |-> query[i], in |-> "query"]]

\* index.ts processItems
RECURSIVE ProcessItems(_)
ProcessItems(items) ==
    IF items = <<>> THEN <<>>
    ELSE LET item == Head(items) IN
         IF "item" \in DOMAIN item
         THEN ProcessItems(item.item) \o ProcessItems(Tail(items))
         ELSE LET request == item.request
                  endpoint ==
                      PostmanEndpoint(
                          IF request.method = "" THEN "GET"
                          ELSE ToUpperCase(request.method),
                          request.url.raw,
                          IF request.url.form = "object"
                          THEN QueryParameters(request.url.query) ELSE <<>>)
              IN  <<endpoint>> \o ProcessItems(Tail(items))

\* index.ts parsePostmanCollection
ParsePostmanCollection(collection) == ProcessItems(collection.item)

\* McpBuilder.tsx extractParametersFromPostmanRequest (requests without
\* headers)
ExtractParametersFromPostmanRequest(request) ==
    IF request.url.form = "object" THEN QueryParameters(request.url.query)
    ELSE <<>>

\* McpBuilder.tsx processItem
RECURSIVE ProcessItem(_)
ProcessItem(item) ==
    IF "item" \in DOMAIN item
    THEN Flatten([i \in 1..Len(item.item) |-> ProcessItem(item.item[i])])
    ELSE LET request == item.request
             method == IF request.method = "" THEN "GET" ELSE request.method
             path == request.url.pathname
         IN  IF path # "" /\ path # "/"
             THEN <<PostmanEndpoint(ToUpperCase(method), path,
                                    ExtractParametersFromPostmanRequest(request))>>
             ELSE <<>>

\* McpBuilder.tsx parsePostmanCollection
McpBuilderParsePostmanCollection(collection) ==
    Flatten([i \in 1..Len(collection.item) |-> ProcessItem(collection.item[i])])

PostmanCalls ==
    {[fn |-> f, args |-> <<c>>] :
        f \in {"parsePostmanCollection", "McpBuilder.parsePostmanCollection"},
        c \in PostmanCollections}

ApplyParsePostmanCollection ==
    /\ call.fn = "parsePostmanCollection"
    /\ HasNextArg
    /\ returned' = Append(returned, ParsePostmanCollection(NextArg))
    /\ UNCHANGED <<serverVars, call, locals>>

ApplyMcpBuilderParsePostmanCollection ==
    /\ call.fn = "McpBuilder.parsePostmanCollection"
    /\ HasNextArg
    /\ returned' = Append(returned, McpBuilderParsePostmanCollection(NextArg))
    /\ UNCHANGED <<serverVars, call, locals>>

\* ---- documents given as text: the parsers tried on them
\* A text as a Page whose kind tells what it is: "spec" a JSON OpenAPI
\* document, "yaml" a YAML one (JSON.parse throws, parseYAMLContent gives an
\* object with openapi/swagger/paths), "html" markup and "text" anything
\* else (JSON.parse throws, parseYAMLContent gives no such object).
TextDocs ==
    LET eps == <<Endpoint("GET", "/users", "doc"), Endpoint("POST", "/users", "doc")>>
    IN  {Page(TRUE, "text/plain", "spec", eps, <<>>),
         Page(TRUE, "text/plain", "yaml", eps, <<>>),
         Page(TRUE, "text/plain", "html", eps, <<>>),
         Page(TRUE, "text/plain", "html", <<>>, <<>>),
         Page(TRUE, "text/plain", "text", <<>>, <<>>)}

\* what a call reports: the parsers applied, in order, and the endpoints
Tried(parsers, eps) == [tried |-> parsers, endpoints |-> eps]

\* index.ts: the spec-file branch of the crawl, which is parseApiSpec alone
SpecFileBranch(c) == Tried(<<"json">>, ParseApiSpec(c))

\* McpBuilder.tsx processContent for pasted or uploaded text
ProcessContent(c) ==
    IF c.kind = "spec" THEN Tried(<<"json">>, c.endpoints)
    ELSE IF c.kind = "yaml" THEN Tried(<<"json", "yaml">>, c.endpoints)
    ELSE Tried(<<"json", "yaml", "html">>,
               IF c.kind = "html" THEN c.endpoints ELSE <<>>)

TextCalls ==
    {[fn |-> f, args |-> <<c>>] : f \in {"parseApiSpec", "processContent"},
                                  c \in TextDocs}

ApplyParseApiSpec ==
    /\ call.fn = "parseApiSpec"
    /\ HasNextArg
    /\ returned' = Append(returned, SpecFileBranch(NextArg))
    /\ UNCHANGED <<serverVars, call, locals>>

ApplyProcessContent ==
    /\ call.fn = "processContent"
    /\ HasNextArg
    /\ returned' = Append(returned, ProcessContent(NextArg))
    /\ UNCHANGED <<serverVars, call, locals>>

\* ---- McpBuilder.tsx: the HTML extractor on a code block with a cURL command
\* A JSON value of an example body is named by what typeof, Array.isArray
\* and Number.isInteger say of it: "string", "integer", "fraction",
\* "boolean", "null".

\* inferJsonSchemaFromExample for an object body: a sequence of key/value;
\* InferScalar is the function on a scalar value
InferJsonSchemaFromExample(example) ==
    LET InferScalar(v) ==
            IF v = "null" THEN [type |-> "null"]
            ELSE IF v \in {"integer", "fraction"}
            THEN [type |-> IF v = "integer" THEN "integer" ELSE "number"]
            ELSE IF v = "boolean" THEN [type |-> "boolean"]
            ELSE [type |-> "string"]
    IN
    [type |-> "object",
     properties |-> [i \in 1..Len(example) |->
                        [name |-> example[i].key,
                         schema |-> InferScalar(example[i].value)]],
     required |-> [i \in 1..Len(example) |-> example[i].key]]

Member(k, v) == [key |-> k, value |-> v]

\* <pre>curl [-s] -X METHOD 'target' -d 'body'</pre>; first tells whether
\* -X METHOD is the first option after `curl`.  A target is the URL or path
\* argument of the command: its text, what new URL(text).pathname gives, and
\* the part of the text from '//' on that the third textContent pattern
\* matches.
CurlBlocks ==
    LET Bodies ==
            {<<Member("name", "string")>>,
             <<Member("name", "string"), Member("qty", "integer")>>,
             <<Member("price", "fraction"), Member("ok", "boolean"),
               Member("note", "null")>>}
        Targets ==
            {[form |-> "url", text |-> "https://x/api/items",
              pathname |-> "/api/items", slashes |-> "//x/api/items"],
             [form |-> "path", text |-> "/api/items", pathname |-> "/api/items",
              slashes |-> ""]}
    IN
    {[first |-> f, method |-> m, target |-> t, body |-> b] :
        f \in BOOLEAN, m \in {"POST", "PUT", "GET"}, t \in Targets, b \in Bodies}

\* parseHTMLDocumentation from the locals `start` on: the locals at its end,
\* `endpoints` being the array it returns (as a set: it is sorted).
\* curlMatch[1] of curlPattern: the lazy [^\n]*? before the optional -X group
\* matches nothing, so the group captures only an -X that follows `curl`
\* directly; otherwise it is skipped and the method defaults to GET.
ParseHTMLDocumentation(html, start) ==
    LET method == IF html.first THEN html.method ELSE "GET"
        HtmlEndpoint(m, p, schema) ==
            [method |-> m, path |-> p, requestBody |-> schema]
        \* the textContent patterns: the third matches a URL from its '//'
        \* on, the fifth a quoted path; both give method GET
        TextPatternFinds(h) ==
            IF h.target.form = "url" THEN {<<h.target.slashes, "GET">>}
            ELSE {<<h.target.text, "GET">>}
        \* sampleSchemas.get(`${method}:${path}`)
        SchemaAt(all, m, p) ==
            IF \E x \in all : x.method = m /\ x.path = p
            THEN (CHOOSE x \in all : x.method = m /\ x.path = p).schema
            ELSE [type |-> "undefined", properties |-> <<>>, required |-> <<>>]
        path == html.target.pathname
        found == start.foundEndpoints \cup TextPatternFinds(html)
                                      \cup {<<path, method>>}
        schemas == {x \in start.sampleSchemas : ~(x.method = method /\ x.path = path)}
                   \cup {[method |-> method, path |-> path,
                          schema |-> InferJsonSchemaFromExample(html.body)]}
    IN  [endpoints |-> {HtmlEndpoint(f[2], f[1], SchemaAt(schemas, f[2], f[1])) :
                            f \in found},
         foundEndpoints |-> found,
         sampleSchemas |-> schemas]

\* `const endpoints = []`, `new Map()`, the regular expression literals:
\* every call of an extractor starts from new locals, whatever the locals
\* `prev` of the call before it ended with
StaleLocals(prev) == prev
FreshLocals(prev) == NoLocals

CurlCalls == {[fn |-> "parseHTMLDocumentation", args |-> <<b>>] : b \in CurlBlocks}

ApplyParseHTMLDocumentation ==
    /\ call.fn = "parseHTMLDocumentation"
    /\ HasNextArg
    /\ locals' = ParseHTMLDocumentation(NextArg, FreshLocals(locals))
    /\ returned' = Append(returned, locals'.endpoints)
    /\ UNCHANGED <<serverVars, call>>

\* ---- the two parseHtmlForEndpoints on markup given by its matches
\* One match of a pattern: the method text it captured ("" when the pattern
\* has no method group matched), the path text and the summary
Hit(m, p, s) == [method |-> m, path |-> p, summary |-> s]

\* Markup by what the scans find in it, each list in the order the code
\* visits the matches: patterns for the pattern loop (the code-block, cURL
\* and HTTP-request scans of part_000), ops for the Swagger UI operation
\* blocks, js for the jsPatterns loop, rows for the (method cell, path cell)
\* pairs of table rows.
Markup(patterns, ops, js, rows) ==
    [patterns |-> patterns, ops |-> ops, js |-> js, rows |-> rows]

Markups ==
    {Markup(<<>>, <<>>, <<>>, <<>>),
     Markup(<<Hit("GET", "/users", "dom"), Hit("get", "/users", "text")>>,
            <<Hit("GET", "/users", "op"), Hit("PUT", "/users", "op")>>,
            <<"/api/x">>, <<Hit("POST", "/users", "table")>>),
     Markup(<<Hit("POST", "/orders", "curl")>>, <<>>, <<>>,
            <<Hit("get", "/orders", "table"), Hit("note", "/orders", "table")>>),
     Markup(<<Hit("DELETE", "/users", "text"), Hit("", "users", "block")>>,
            <<>>, <<"/users">>, <<>>)}

\* path.startsWith('/')
StartsWithSlash(path) == path \in {"/users", "/orders", "/api/x"}

Has(eps, m, p) == \E i \in 1..Len(eps) : eps[i].path = p /\ eps[i].method = m

\* index.ts: the loop over `patterns`; the test compares the method as
\* captured, the push stores it uppercased
RECURSIVE PatternLoop(_, _)
PatternLoop(hits, eps) ==
    IF hits = <<>> THEN eps
    ELSE LET h == Head(hits) IN
         PatternLoop(Tail(hits),
            IF StartsWithSlash(h.path) /\ h.method # "" /\ ~Has(eps, h.method, h.path)
            THEN Append(eps, Endpoint(ToUpperCase(h.method), h.path, h.summary))
            ELSE eps)

\* index.ts: the loop over swaggerOperations, which uppercases the method
\* before the test
RECURSIVE SwaggerOperationLoop(_, _)
SwaggerOperationLoop(ops, eps) ==
    IF ops = <<>> THEN eps
    ELSE LET method == ToUpperCase(Head(ops).method)
             path == Head(ops).path
         IN  SwaggerOperationLoop(Tail(ops),
                IF StartsWithSlash(path) /\ ~Has(eps, method, path)
                THEN Append(eps, Endpoint(method, path, Head(ops).summary))
                ELSE eps)

\* index.ts: the loop over jsPatterns, which compares the path alone
RECURSIVE JsPatternLoop(_, _)
JsPatternLoop(paths, eps) ==
    IF paths = <<>> THEN eps
    ELSE LET path == Head(paths) IN
         JsPatternLoop(Tail(paths),
            IF StartsWithSlash(path) /\ ~(\E i \in 1..Len(eps) : eps[i].path = path)
            THEN Append(eps, Endpoint("GET", path, "js"))
            ELSE eps)

\* the table rows; `methods` is the list the cell is tested against
RECURSIVE TableRowLoop(_, _, _)
TableRowLoop(rows, eps, methods) ==
    IF rows = <<>> THEN eps
    ELSE LET method == ToUpperCase(Head(rows).method)
             path == Head(rows).path
         IN  TableRowLoop(Tail(rows),
                IF method \in methods /\ StartsWithSlash(path) /\ ~Has(eps, method, path)
                THEN Append(eps, Endpoint(method, path, "table"))
                ELSE eps,
                methods)

\* index.ts parseHtmlForEndpoints from the locals `start` on
ParseHtmlForEndpointsFrom(html, start) ==
    [start EXCEPT !.endpoints =
        TableRowLoop(html.rows,
                     JsPatternLoop(html.js,
                         SwaggerOperationLoop(html.ops,
                                              PatternLoop(html.patterns, @))),
                     {"GET", "POST", "PUT", "DELETE", "PATCH", "HEAD", "OPTIONS"})]

\* part_000: the scans of code blocks, cURL examples and HTTP requests, which
\* uppercase the method before the test
RECURSIVE MethodScan(_, _)
MethodScan(hits, eps) ==
    IF hits = <<>> THEN eps
    ELSE LET method == ToUpperCase(Head(hits).method)
             path == Head(hits).path
         IN  MethodScan(Tail(hits),
                IF method # "" /\ StartsWithSlash(path) /\ ~Has(eps, method, path)
                THEN Append(eps, Endpoint(method, path, Head(hits).summary))
                ELSE eps)

\* part_000 parseHtmlForEndpoints from the locals `start` on
Part000ParseHtmlForEndpoints(html, start) ==
    [start EXCEPT !.endpoints =
        TableRowLoop(html.rows, MethodScan(html.patterns, @),
                     {"GET", "POST", "PUT", "DELETE", "PATCH"})]

\* an extractor called on one markup, on another, and on the first again
ExtractorCalls ==
    {[fn |-> f, args |-> <<m1, m2, m1>>] :
        f \in {"parseHtmlForEndpoints", "part_000.parseHtmlForEndpoints"},
        m1 \in Markups, m2 \in Markups}
    \cup {[fn |-> "parseHTMLDocumentation", args |-> <<b1, b2, b1>>] :
            b1 \in CurlBlocks,
            b2 \in {b \in CurlBlocks : b.first /\ Len(b.body) = 1}}

ApplyParseHtmlForEndpoints ==
    /\ call.fn = "parseHtmlForEndpoints"
    /\ HasNextArg
    /\ locals' = ParseHtmlForEndpointsFrom(NextArg, FreshLocals(locals))
    /\ returned' = Append(returned, locals'.endpoints)
    /\ UNCHANGED <<serverVars, call>>

ApplyPart000ParseHtmlForEndpoints ==
    /\ call.fn = "part_000.parseHtmlForEndpoints"
    /\ HasNextArg
    /\ locals' = Part000ParseHtmlForEndpoints(NextArg, FreshLocals(locals))
    /\ returned' = Append(returned, locals'.endpoints)
    /\ UNCHANGED <<serverVars, call>>

\* ---- the handler's enhancement and manifest steps on a crawl result
\* the largest number of endpoints a crawl result is taken with
MaxDiscovered == 21

\* a crawl result of n endpoints
Discovered(n) == [i \in 1..n |-> Endpoint("GET", "/items/" \o ToString(i), "spec")]

EnhanceCalls ==
    {[fn |-> "enhanceWithOpenAI", args |-> <<Discovered(n)>>] : n \in 1..MaxDiscovered}

\* enhanceWithOpenAI with a collaborator that returns a same-shape array for
\* the endpoints it was sent, then generateMcp on the result
ApplyEnhanceWithOpenAI ==
    /\ call.fn = "enhanceWithOpenAI"
    /\ HasNextArg
    /\ LET sent == Slice0(NextArg, MAX_ENHANCED)
           enhancedEndpoints ==
               EnhanceWithOpenAI(NextArg, Reply(TRUE, TRUE, "array", Enhanced(sent)))
       IN  returned' = Append(returned, GenerateMcp(enhancedEndpoints))
    /\ UNCHANGED <<serverVars, call, locals>>

\* ---- the crawlers that follow discovered links: crawlDocumentation of
\* McpBuilder.tsx and the crawlApiDocumentation of part_000
\* u.startsWith(origin), origin being new URL(baseUrl).origin, for the href u of a parsed URL: a comparison of
\* strings, true also for a longer hostname that continues after a dot
StartsWithOrigin(u, origin) ==
    /\ u.scheme = origin.scheme
    /\ u.host = origin.host \/ StartsWithLabels(u.host, origin.host)

\* What a site serves at a URL, in the form the crawlers reduce it to: ok is
\* FALSE when no strategy yields text (or the fetch rejects); kind and
\* endpoints as for Page; anchors the href attributes of the a elements;
\* specLinks the strings the spec-link patterns capture; llmLinks the links
\* the collaborator suggests for the page; swaggerUi whether the text has one
\* of the Swagger UI markers, configUrls what the config patterns capture.
Doc(ok, kind, eps, anchors, specLinks, llmLinks, swaggerUi, configUrls) ==
    [ok |-> ok, kind |-> kind, endpoints |-> eps, anchors |-> anchors,
     specLinks |-> specLinks, llmLinks |-> llmLinks, swaggerUi |-> swaggerUi,
     configUrls |-> configUrls]

\* the length of the chain of pages /docs/1 -> /docs/2 -> ... of the site
\* "chain"
ChainLength == 6

DocsPath(k) == "/docs/" \o ToString(k)

\* the sites "chain" and "offsite"; the second links to other hosts, one of
\* them named by the seed's hostname followed by further labels
SiteDoc(site, u) ==
    LET NoDoc == Doc(FALSE, "html", <<>>, <<>>, <<>>, <<>>, FALSE, <<>>)
        HostSuffixed == HostA \o <<"evil", "org">>
    IN
    IF u.scheme # "https" THEN NoDoc
    ELSE IF u.host = HostEvil
    THEN IF site = "offsite" /\ u.path = "/openapi.json"
         THEN Doc(TRUE, "spec", <<Endpoint("GET", "/stolen", "spec")>>,
                  <<>>, <<>>, <<>>, FALSE, <<>>)
         ELSE NoDoc
    ELSE IF u.host = HostSuffixed
    THEN IF site = "offsite" /\ u.path = "/docs/x"
         THEN Doc(TRUE, "html", <<Endpoint("GET", "/x", "html")>>,
                  <<>>, <<>>, <<>>, FALSE, <<>>)
         ELSE NoDoc
    ELSE IF u.host # HostA THEN NoDoc
    ELSE IF u.path = "/openapi.json"
    THEN Doc(TRUE, "spec", <<Endpoint("GET", "/users", "spec")>>,
             <<>>, <<>>, <<>>, FALSE, <<>>)
    ELSE IF site = "chain"
    THEN IF u.path = "/"
         THEN Doc(TRUE, "html", <<Endpoint("GET", "/users", "html")>>,
                  <<Rel("/"), Rel(DocsPath(1))>>, <<Rel("/openapi.json")>>,
                  <<Rel("/reference")>>, TRUE, <<Rel("/openapi.json")>>)
         ELSE IF u.path = "/reference"
         THEN Doc(TRUE, "html", <<Endpoint("GET", "/status", "html")>>,
                  <<Rel("/")>>, <<>>, <<>>, FALSE, <<>>)
         ELSE IF \E k \in 1..ChainLength : u.path = DocsPath(k)
         THEN LET k == CHOOSE k \in 1..ChainLength : u.path = DocsPath(k)
              IN  Doc(TRUE, "html", <<Endpoint("GET", u.path, "html")>>,
                      <<Rel(DocsPath(k)), Rel(DocsPath(k + 1))>>,
                      <<>>, <<>>, FALSE, <<>>)
         ELSE NoDoc
    ELSE IF u.path = "/"
         THEN Doc(TRUE, "html", <<>>,
                  <<Url("https", HostSuffixed, "/docs/x"),
                    Url("https", HostEvil, "/docs/y"), Rel(DocsPath(1))>>,
                  <<Url("https", HostEvil, "/openapi.json")>>,
                  <<Url("https", HostEvil, "/docs/z")>>, TRUE,
                  <<Url("https", HostEvil, "/openapi.json")>>)
         ELSE NoDoc

\* one fetch issued by a crawl: the URL, the depth of the queue entry being
\* processed, and what it was fetched as
Fetch(u, depth, as) == [url |-> u, depth |-> depth, as |-> as]

\* findSpecUrls: origin + path for the common paths, then the captured
\* strings: origin-prefixed when they start with '/', taken as they are when
\* they start with 'http'
FindSpecUrls(html, baseUrl) ==
    LET commonPaths ==
            <<"/swagger.json", "/swagger.yaml", "/swagger.yml",
              "/openapi.json", "/openapi.yaml", "/openapi.yml",
              "/api-docs", "/api-docs.json", "/api-docs.yaml",
              "/api/swagger.json", "/api/swagger.yaml",
              "/api/openapi.json", "/api/openapi.yaml",
              "/docs/swagger.json", "/docs/openapi.json">>
        common == [i \in 1..Len(commonPaths) |->
                      Url(baseUrl.scheme, baseUrl.host, commonPaths[i])]
        found == [i \in 1..Len(html.specLinks) |->
                      NewURL(html.specLinks[i], baseUrl)]
    IN  Unique(common \o found)

\* extractLinksFromHtml; HasDocKeyword is
\* keywords.some(k => u.toLowerCase().includes(k)), u being the whole URL
ExtractLinksFromHtml(html, baseUrl) ==
    LET origin == [scheme |-> baseUrl.scheme, host |-> baseUrl.host]
        HasDocKeyword(u) ==
            \/ \E i \in 1..Len(u.host) : u.host[i] \in {"api", "docs"}
            \/ u.path \in {"/reference", "/openapi.json"}
            \/ \E k \in 1..(ChainLength + 1) : u.path = DocsPath(k)
            \/ u.path \in {"/docs/x", "/docs/y", "/docs/z"}
        links == [i \in 1..Len(html.anchors) |-> NewURL(html.anchors[i], baseUrl)]
        Kept(u) == StartsWithOrigin(u, origin) /\ HasDocKeyword(u)
    IN  Unique(Slice0(SelectSeq(links, Kept), 50))

\* llmSuggestLinks, the collaborator having answered with the page's llmLinks
LlmSuggestLinks(html, baseUrl) ==
    LET origin == [scheme |-> baseUrl.scheme, host |-> baseUrl.host]
        links == [i \in 1..Len(html.llmLinks) |-> NewURL(html.llmLinks[i], baseUrl)]
        Kept(l) == StartsWithOrigin(l, origin)
    IN  SelectSeq(links, Kept)

\* the existingKeys test: endpoints of new whose method:path key is new
RECURSIVE AddNewKeys(_, _)
AddNewKeys(eps, new) ==
    IF new = <<>> THEN eps
    ELSE AddNewKeys(IF Has(eps, Head(new).method, Head(new).path) THEN eps
                    ELSE Append(eps, Head(new)),
                    Tail(new))

\* The while loop of crawlDocumentation.  st holds queue, visited, endpoints
\* and sourceUrls, and the fetches issued so far.  SpecEndpointsOf and
\* HtmlEndpointsOf are parseOpenAPISpec and parseHTMLDocumentation on a
\* fetched text, reduced to their results.
RECURSIVE CrawlQueue(_, _, _, _)
CrawlQueue(st, apiKey, maxDepth, site) ==
    IF st.queue = <<>> THEN st
    ELSE LET item == Head(st.queue)
             rest == Tail(st.queue)
             SpecEndpointsOf(c) == IF c.kind = "spec" THEN c.endpoints ELSE <<>>
             HtmlEndpointsOf(c) == IF c.kind = "html" THEN c.endpoints ELSE <<>>
         IN
         IF item.url \in st.visited \/ item.depth > maxDepth
         THEN CrawlQueue([st EXCEPT !.queue = rest], apiKey, maxDepth, site)
         ELSE LET html == SiteDoc(site, item.url)
                  visited == st.visited \cup {item.url}
                  fetched == Append(st.fetched, Fetch(item.url, item.depth, "page"))
              IN
              IF ~html.ok
              THEN CrawlQueue([st EXCEPT !.queue = rest, !.visited = visited,
                                         !.fetched = fetched],
                              apiKey, maxDepth, site)
              ELSE LET specUrls == FindSpecUrls(html, item.url)
                       Parsed(specUrl) == SiteDoc(site, specUrl).ok
                       parsedUrls == SelectSeq(specUrls, Parsed)
                       specEndpoints ==
                           Flatten([i \in 1..Len(parsedUrls) |->
                                       SpecEndpointsOf(SiteDoc(site, parsedUrls[i]))])
                       NotVisitedYet(u) == u \notin visited
                       nextLinks ==
                           Slice0(SelectSeq(
                                      Unique(ExtractLinksFromHtml(html, item.url) \o
                                             (IF apiKey
                                              THEN LlmSuggestLinks(html, item.url)
                                              ELSE <<>>)),
                                      NotVisitedYet), 20)
                   IN  CrawlQueue(
                         [queue |-> rest \o [i \in 1..Len(nextLinks) |->
                                               [url |-> nextLinks[i],
                                                depth |-> item.depth + 1]],
                          visited |-> visited,
                          fetched |-> fetched \o
                                      [i \in 1..Len(specUrls) |->
                                          Fetch(specUrls[i], item.depth, "spec")],
                          sourceUrls |-> st.sourceUrls \o <<item.url>> \o parsedUrls,
                          endpoints |->
                              AddNewKeys(AddNewKeys(st.endpoints, specEndpoints),
                                         HtmlEndpointsOf(html))],
                         apiKey, maxDepth, site)

\* crawlDocumentation
CrawlDocumentation(startUrl, apiKey, maxDepth, site) ==
    CrawlQueue([queue |-> <<[url |-> startUrl, depth |-> 0]>>, visited |-> {},
                fetched |-> <<>>, sourceUrls |-> <<>>, endpoints |-> <<>>],
               apiKey, maxDepth, site)

\* Math.max(0, Math.min(maxDepth, 4))
ClampDepthNoMin(maxDepth) == Max(0, maxDepth)
ClampDepth(maxDepth) == Max(0, Min(maxDepth, 4))

\* processUrlWithLLMCrawl: the two throws, then the crawl
ProcessUrlWithLLMCrawl(u, apiKey, maxDepth, site) ==
    IF u.scheme # "https" THEN [threw |-> TRUE, fetched |-> <<>>]
    ELSE IF u.host = HostLocal \/ u.host = <<"127", "0", "0", "1">>
    THEN [threw |-> TRUE, fetched |-> <<>>]
    ELSE LET st == CrawlDocumentation(u, apiKey, ClampDepth(maxDepth), site)
         IN  [threw |-> FALSE, fetched |-> st.fetched,
              endpoints |-> st.endpoints, sourceUrls |-> Unique(st.sourceUrls)]

\* the seeds of the crawls
CrawlSeeds == {Url("https", HostA, "/"), Url("http", HostA, "/"),
               Url("https", HostLocal, "/")}

BrowserCrawlCalls ==
    {[fn |-> "processUrlWithLLMCrawl",
      args |-> <<[url |-> u, apiKey |-> k, maxDepth |-> d, site |-> s]>>] :
        u \in CrawlSeeds, k \in BOOLEAN,
        d \in {-1, 0, 2, 4, 5, 7}, \* the caller's maxDepth
        s \in {"chain", "offsite"}}

\* one crawl; `returned` gets its result together with the fetches it issued
ApplyProcessUrlWithLLMCrawl ==
    /\ call.fn = "processUrlWithLLMCrawl"
    /\ HasNextArg
    /\ LET a == NextArg
           r == ProcessUrlWithLLMCrawl(a.url, a.apiKey, a.maxDepth, a.site)
       IN  returned' = Append(returned, r)
    /\ UNCHANGED <<serverVars, call, locals>>

\* ---- crawlApiDocumentation of part_000
\* isNonSpecUrl: the extension, 'static/', 'assets/', 'images/', '.min.'
IsNonSpecUrl(u) == u.path \in {"/static/api-docs.js"}

\* extractSwaggerUIConfig: new URL(match[1], base).href of every capture
ExtractSwaggerUIConfig(content, baseUrl) ==
    Unique([i \in 1..Len(content.configUrls) |->
               NewURL(content.configUrls[i], baseUrl)])

\* findApiSpecs: the captures of the content, then the common paths
FindApiSpecs(baseUrl, content) ==
    LET found == [i \in 1..Len(content.specLinks) |->
                     NewURL(content.specLinks[i], baseUrl)]
        IsSpec(u) == ~IsNonSpecUrl(u)
        commonPaths ==
            <<"/openapi.json", "/swagger.json", "/api-docs", "/api/docs",
              "/docs/api", "/swagger/v1/swagger.json", "/v1/swagger.json",
              "/api/v1/swagger.json", "/swagger.yaml", "/openapi.yaml",
              "/api-docs.json", "/swagger/docs/v1", "/docs/swagger.json">>
        common == [i \in 1..Len(commonPaths) |->
                      NewURL(Rel(commonPaths[i]), baseUrl)]
    IN  Unique(SelectSeq(found, IsSpec) \o common)

\* one of the two loops over spec URLs: every URL not yet visited (and, in
\* the second loop, not a non-spec URL) is fetched; visited and the
\* endpoints grow when the fetch resolves
RECURSIVE FetchSpecs(_, _, _, _)
FetchSpecs(specUrls, st, site, filtered) ==
    IF specUrls = <<>> THEN st
    ELSE LET specUrl == Head(specUrls)
             c == SiteDoc(site, specUrl)
         IN  IF specUrl \in st.visited \/ (filtered /\ IsNonSpecUrl(specUrl))
             THEN FetchSpecs(Tail(specUrls), st, site, filtered)
             ELSE FetchSpecs(
                    Tail(specUrls),
                    [st EXCEPT !.fetched = Append(@, Fetch(specUrl, 0, "spec")),
                               !.visited = IF c.ok THEN @ \cup {specUrl} ELSE @,
                               !.sourceUrls = IF c.ok THEN Append(@, specUrl) ELSE @,
                               !.endpoints = IF c.ok THEN @ \o ParseApiSpec(c)
                                             ELSE @],
                    site, filtered)

Part000CrawlApiDocumentation(u, site) ==
    IF ~IsValidUrl(u) \/ ~IsSafeUrl(u)
    THEN [fetched |-> <<>>, endpoints |-> <<>>, sourceUrls |-> <<>>]
    ELSE LET content == SiteDoc(site, u)
             main == [fetched |-> <<Fetch(u, 0, "page")>>, visited |-> {u},
                      sourceUrls |-> <<u>>, endpoints |-> <<>>]
         IN
         IF ~content.ok
         THEN [fetched |-> main.fetched, endpoints |-> <<>>, sourceUrls |-> <<>>]
         ELSE LET swagger ==
                      IF content.swaggerUi
                      THEN FetchSpecs(ExtractSwaggerUIConfig(content, u), main,
                                      site, FALSE)
                      ELSE main
                  specs == FetchSpecs(FindApiSpecs(u, content), swagger, site, TRUE)
                  htmlEndpoints == ParseHtmlForEndpoints(content)
              IN  IF Len(specs.endpoints) > 0
                  THEN [fetched |-> specs.fetched, endpoints |-> specs.endpoints,
                        sourceUrls |-> specs.sourceUrls]
                  ELSE IF Len(htmlEndpoints) > 0
                  THEN [fetched |-> specs.fetched, endpoints |-> htmlEndpoints,
                        sourceUrls |-> specs.sourceUrls]
                  ELSE \* tryCommonApiPaths: the HEAD probes, one after the other
                       [fetched |->
                            specs.fetched \o
                            [i \in 1..Len(CommonApiPaths) |->
                                Fetch(NewURL(Rel(CommonApiPaths[i]), u), 0, "head")],
                        endpoints |->
                            SelectSeq([i \in 1..Len(CommonApiPaths) |->
                                          Endpoint("GET", CommonApiPaths[i], "common")],
                                      LAMBDA e : SiteDoc(site, NewURL(Rel(e.path), u)).ok),
                        sourceUrls |-> specs.sourceUrls]

Part000CrawlCalls ==
    {[fn |-> "part_000.crawlApiDocumentation",
      args |-> <<[url |-> u, site |-> s]>>] : u \in CrawlSeeds, s \in {"chain", "offsite"}}

ApplyPart000CrawlApiDocumentation ==
    /\ call.fn = "part_000.crawlApiDocumentation"
    /\ HasNextArg
    /\ LET r == Part000CrawlApiDocumentation(NextArg.url, NextArg.site)
       IN  returned' = Append(returned, r)
    /\ UNCHANGED <<serverVars, call, locals>>

\* ---- crawlWithFirecrawl: the submit request and the polling loop
maxAttempts == 30

\* logs.push of a line of kind k: the log is kept as the number of lines of
\* each kind
Push(lg, k) == [lg EXCEPT ![k] = @ + 1]

\* the return, through the end of the try block or through the catch
FirecrawlReturns(l) ==
    /\ locals' = [l EXCEPT !.pc = "returned"]
    /\ returned' = Append(returned, l.endpoints)

\* the end of the while loop: the test after it, then the return
FirecrawlAfterLoopNoTest(l) ==
    FirecrawlReturns([l EXCEPT !.logs = Push(@, "timeout")])
FirecrawlAfterLoop(l) ==
    FirecrawlReturns(IF l.attempts >= maxAttempts
                     THEN [l EXCEPT !.logs = Push(@, "timeout")]
                     ELSE l)

\* The call up to the first wait of the polling loop, or to its return.
\* The locals of a call are its position, attempts, the number of status
\* requests issued, the last status reply, the endpoints, and the log.  The
\* reply is what the collaborator answers to the submit request ("reject":
\* fetch rejects or the body is no JSON).
FirecrawlSubmit(reply) ==
    /\ call.fn = "crawlWithFirecrawl"
    /\ HasNextArg
    /\ locals = NoLocals
    /\ LET FirecrawlLines ==
               {"starting", "initiated", "completed", "extracted", "failed",
                "status", "timeout", "api_failed", "error"}
           l == [pc |-> "submit", attempts |-> 0, polls |-> 0, last |-> "none",
                 endpoints |-> <<>>,
                 logs |-> Push([k \in FirecrawlLines |-> 0], "starting")]
       IN  IF reply = "reject"
           THEN FirecrawlReturns([l EXCEPT !.logs = Push(@, "error")])
           ELSE IF reply = "notok"
           THEN FirecrawlReturns([l EXCEPT !.logs = Push(@, "api_failed")])
           ELSE IF 0 < maxAttempts
           THEN /\ locals' = [l EXCEPT !.pc = "polling",
                                       !.logs = Push(@, "initiated")]
                /\ UNCHANGED returned
           ELSE FirecrawlAfterLoop([l EXCEPT !.logs = Push(@, "initiated")])
    /\ UNCHANGED <<serverVars, call>>

\* One iteration of the polling loop after its 10 s wait: the status request
\* and what follows its reply, up to the next wait or to the return.  The
\* reply is what the collaborator answers to the status request ("reject":
\* fetch rejects or the body is no JSON; "garbled": a completed reply whose
\* data makes the page loop throw after its first page).
FirecrawlPoll(reply) ==
    /\ call.fn = "crawlWithFirecrawl"
    /\ locals # NoLocals
    /\ locals.pc = "polling"
    /\ LET l == [locals EXCEPT !.polls = @ + 1, !.last = reply]
           \* status.data of a completed reply
           FirecrawlPages == <<Content("/docs/guide"), Content("/docs/a")>>
       IN
       IF reply = "reject"
       THEN FirecrawlReturns([l EXCEPT !.logs = Push(@, "error")])
       ELSE IF reply = "completed"
       THEN FirecrawlAfterLoop(
                [l EXCEPT !.endpoints =
                              Flatten([i \in 1..Len(FirecrawlPages) |->
                                          ParseHtmlForEndpoints(FirecrawlPages[i])]),
                          !.logs = Push(Push(@, "completed"), "extracted")])
       ELSE IF reply = "garbled"
       THEN FirecrawlReturns(
                [l EXCEPT !.endpoints = ParseHtmlForEndpoints(FirecrawlPages[1]),
                          !.logs = Push(Push(@, "completed"), "error")])
       ELSE IF reply = "failed"
       THEN FirecrawlAfterLoop([l EXCEPT !.logs = Push(@, "failed")])
       ELSE LET next == [l EXCEPT !.attempts = @ + 1,
                                  !.logs = IF reply = "running"
                                           THEN Push(@, "status") ELSE @]
            IN  IF next.attempts < maxAttempts
                THEN /\ locals' = next
                     /\ UNCHANGED returned
                ELSE FirecrawlAfterLoop(next)
    /\ UNCHANGED <<serverVars, call>>

FirecrawlCalls ==
    {[fn |-> "crawlWithFirecrawl", args |-> <<Url("https", HostA, "/")>>]}

\* the specification of the parsers applied on their own
ParserInit ==
    /\ ServerIdle
    /\ returned = <<>>
    /\ locals = NoLocals
    /\ \/ call \in FilterCalls
       \/ call \in OpenApiCalls
       \/ call \in PostmanCalls
       \/ call \in TextCalls
       \/ call \in CurlCalls
       \/ call \in ExtractorCalls
       \/ call \in EnhanceCalls
       \/ call \in BrowserCrawlCalls
       \/ call \in Part000CrawlCalls
       \/ call \in FirecrawlCalls

ParserNext ==
    \/ ApplySafetyFilter
    \/ ApplyParseOpenApiSpec
    \/ ApplyParseOpenAPISpec
    \/ ApplyParsePostmanCollection
    \/ ApplyMcpBuilderParsePostmanCollection
    \/ ApplyParseApiSpec
    \/ ApplyProcessContent
    \/ ApplyParseHTMLDocumentation
    \/ ApplyParseHtmlForEndpoints
    \/ ApplyPart000ParseHtmlForEndpoints
    \/ ApplyEnhanceWithOpenAI
    \/ ApplyProcessUrlWithLLMCrawl
    \/ ApplyPart000CrawlApiDocumentation
    \/ \E reply \in {"reject", "notok", "ok"} : FirecrawlSubmit(reply)
    \/ \E reply \in {"reject", "notok", "running", "completed", "garbled", "failed"} :
          FirecrawlPoll(reply)

ParserSpec == ParserInit /\ [][ParserNext]_vars

\* ----------------------------------------------------------------- claims
SameOperation(a, b) == a.method = b.method /\ a.path = b.path

NoDuplicates(eps) ==
    \A i, j \in 1..Len(eps) : i # j => ~SameOperation(eps[i], eps[j])

OperationsOf(eps) == {<<eps[i].method, eps[i].path>> : i \in 1..Len(eps)}

\* C1: the endpoints list a crawl returns holds no two records with the same
\* (method, path) pair.
C1_DedupInvariant == cs = "returned" => NoDuplicates(allEndpoints)

\* C2: no network request of a crawl goes to a URL that isValidUrl or
\* isSafeUrl rejects, in any phase.
C2_NoRequestToRejectedUrl ==
    \A q \in requests : IsValidUrl(q.url) /\ IsSafeUrl(q.url)

\* C3: every URL requested during the crawl of a seed has the seed's
\* hostname, whatever links the fetched pages contain.
C3_SameOrigin == \A q \in requests : q.url.host = url.host

\* C3 witness: the root page, which links to another host, was fetched and
\* the links it yielded were requested; the crawl then went on to the
\* common-path probes.
C3_Witness ==
    /\ Url("https", HostA, "/") \in Range(sourceUrls)
    /\ \E q \in requests : q.phase = "loop" /\ q.url.path = "/docs/guide"
    /\ \E q \in requests : q.phase = "direct"
    /\ \E q \in requests : q.phase = "common"

\* C4: when the time budget stops an invocation (the main loop exits through
\* isTimeoutApproaching, or the global timeout promise wins the race), the
\* response carries the endpoints accumulated up to then and a timeout
\* indicator set to true (metadata.timeoutReached, or at least the timeout
\* error text), and is no exception.
C4_TimeoutKeepsPartialResults ==
    (hs = "responded" /\ stop.reason # "none") =>
        /\ resp.status = 200
        /\ resp.timeoutReached = "true" \/ resp.error = "timeout"
        /\ OperationsOf(resp.endpoints) = OperationsOf(stop.endpoints)

\* C5: writes of concurrently handled requests to urlCache never make this
\* crawl skip a URL: every URL it skips on a cache hit is one it visited
\* itself.
C5_CacheIsolation == cacheSkipped = {}

\* C6: while an invocation runs, the start time isTimeoutApproaching measures
\* against is the one set when that invocation began.
C6_StartTimeStable == hs \in {"racing", "enhancing"} => startTime = began

\* C7: no request leaves fetchWithTimeout once more than
\* GLOBAL_TIMEOUT - 5000 ms have elapsed since the invocation began.
C7_NoFetchAfterBudget == \A q \in requests : ~q.late

\* C8: the main loop pops at most the caller's maxPages URLs when that value
\* is between 1 and MAX_PAGES, and at most MAX_PAGES for any other value.
C8_PageBudget ==
    popped <= (IF optMaxPages \in 1..MAX_PAGES THEN optMaxPages ELSE MAX_PAGES)

\* C8 witness: a caller asked for more than the ceiling and the crawl has
\* popped exactly MAX_PAGES URLs.
C8_Witness == optMaxPages > MAX_PAGES /\ popped = MAX_PAGES /\ cs = "returned"

\* C9: a URL whose fetch failed is never requested again in the same crawl.
C9_NoRetryAfterFailure == retried = {}

EnhancementFailed(r) ==
    \/ r.json = "timeout"
    \/ r.json # "unset" /\ ~r.net
    \/ r.net /\ ~r.ok
    \/ r.net /\ r.ok /\ r.json \in {"invalid", "object"}
    \/ r.net /\ r.ok /\ r.json = "array" /\ r.value = <<>>

\* C10: whatever way the enhancement collaborator fails, the handler answers
\* success=true with exactly the endpoints and tool descriptions of the
\* un-enhanced crawl result.
C10_EnhancementFallback ==
    (hs = "responded" /\ EnhancementFailed(enhReply)) =>
        /\ resp.status = 200
        /\ resp.success
        /\ resp.endpoints = allEndpoints
        /\ resp.tools = GenerateMcp(allEndpoints)

\* C10 witness: the collaborator replied with an empty array and the handler
\* has answered for a crawl that found endpoints.
C10_Witness ==
    /\ hs = "responded"
    /\ enhReply = Reply(TRUE, TRUE, "array", <<>>)
    /\ Len(allEndpoints) > 0
    /\ resp.success

\* C11: whenever an invocation ends with zero endpoints (after all fallbacks,
\* or because the global timeout won the race), the answer is a structured
\* failure (HTTP 200, success=false) with a suggestions list and with every
\* log line the crawl had accumulated by then.
C11_ZeroEndpointsFailureKeepsLogs ==
    (hs = "responded" /\ resp.error \in {"no_endpoints", "timeout"}) =>
        /\ resp.status = 200
        /\ ~resp.success
        /\ resp.suggestions
        /\ Range(accumulated) \subseteq Range(resp.logs)

\* C12: for every seed string and every fetch outcome crawlApiDocumentation
\* returns a result and never throws: no invocation is answered with HTTP
\* 500, and a seed that does not parse or fails the safety filter gives an
\* empty result with logs.
C12_CrawlNeverThrows ==
    /\ cs # "threw"
    /\ resp.status # 500
    /\ (cs = "returned" /\ (~IsValidUrl(url) \/ ~IsSafeUrl(url))) =>
           (allEndpoints = <<>> /\ Len(logs) > 0)

\* the crawl requests that have been issued and have not settled
InFlight ==
    Cardinality({i \in 1..Len(probes) : probes[i].st = "inflight"})
    + Cardinality({i \in 1..Len(batch) : batch[i].st = "inflight"})
    + (IF cs = "phase3" THEN 1 ELSE 0)

\* C20: at every moment of a crawl at most MAX_PARALLEL crawl requests are in
\* flight, in direct spec probing, in main-loop batches and in common-path
\* probing alike.
C20_InFlightAtMostMaxParallel == InFlight <= MAX_PARALLEL

BlockedPrefixes == {<<"127">>, <<"10">>, <<"192", "168">>, <<"169", "254">>}

Acceptable(u) ==
    /\ u.scheme # ""
    /\ u.scheme \in {"http", "https"}
    /\ u.host # <<"localhost">>
    /\ \A pre \in BlockedPrefixes :
          ~(Len(u.host) > Len(pre) /\ SubSeq(u.host, 1, Len(pre)) = pre)

\* C13: the safety filter accepts a URL exactly when it parses, its scheme is
\* http or https, and its hostname is not 'localhost' and does not start
\* with '127.', '10.', '192.168.' or '169.254.'; it rejects
\* http://localhost/x, http://127.0.0.1/ and http://192.168.1.1/a, accepts
\* https://api.example.com/docs, and writes no module-level variable.
C13_SafetyFilter ==
    (call.fn = "safetyFilter" /\ returned # <<>>) =>
        LET u == call.args[1] IN
        /\ returned[1] = Acceptable(u)
        /\ u = Url("http", HostLocal, "/x") => ~returned[1]
        /\ u = Url("http", <<"127", "0", "0", "1">>, "/") => ~returned[1]
        /\ u = Url("http", <<"192", "168", "1", "1">>, "/a") => ~returned[1]
        /\ u = Url("https", HostA, "/docs") => returned[1]
        /\ startTime = 0 /\ urlCache = {}

\* C13 witness: the filter was applied to a link-local address and rejected
\* it.
C13_Witness ==
    /\ call.fn = "safetyFilter"
    /\ call.args[1] = Url("http", <<"169", "254", "169", "254">>, "/")
    /\ returned = <<FALSE>>

\* the (method, path) pairs of the operations of an OpenAPI document
OperationsIn(spec) ==
    {<<ToUpperCase(spec.paths[i].item[j].key), spec.paths[i].path>> :
        <<i, j>> \in {<<i, j>> \in (1..Len(spec.paths)) \X (1..3) :
                        /\ j <= Len(spec.paths[i].item)
                        /\ spec.paths[i].item[j].key \in httpMethods
                        /\ spec.paths[i].item[j].type = "object"}}

\* C14: for an OpenAPI document the spec parser returns exactly one endpoint
\* for each method-token key of each path item that holds an operation
\* object, with the uppercased token as method, and none for any other key
\* such as a shared `parameters` array.
C14_OnlyMethodKeys ==
    (call.fn \in {"parseOpenApiSpec", "parseOpenAPISpec"} /\ returned # <<>>) =>
        /\ OperationsOf(returned[1]) = OperationsIn(call.args[1])
        /\ Len(returned[1]) = Cardinality(OperationsIn(call.args[1]))

\* the leaf requests of a list of items, folders opened, in document order
RECURSIVE LeafRequests(_)
LeafRequests(items) ==
    IF items = <<>> THEN <<>>
    ELSE (IF "item" \in DOMAIN Head(items) THEN LeafRequests(Head(items).item)
          ELSE <<Head(items).request>>) \o LeafRequests(Tail(items))

\* the endpoint the statement asks for a leaf request
EndpointOfRequest(request) ==
    PostmanEndpoint(IF request.method = "" THEN "GET" ELSE ToUpperCase(request.method),
                    request.url.pathname, QueryParameters(request.url.query))

\* C15: for a Postman collection with folders nested to any depth the parser
\* returns exactly one endpoint per leaf request, with the path component of
\* the request URL as path (string or structured URL alike), the method
\* uppercased, and one query parameter per query parameter of the URL.
C15_PostmanLeaves ==
    (call.fn \in {"parsePostmanCollection", "McpBuilder.parsePostmanCollection"}
     /\ returned # <<>>) =>
        LET requests_ == LeafRequests(call.args[1].item) IN
        /\ Len(returned[1]) = Len(requests_)
        /\ Range(returned[1]) = {EndpointOfRequest(q) : q \in Range(requests_)}

\* C16: a text that is not valid JSON is parsed with the YAML parser, and
\* when that yields no spec the HTML/text extractor is applied to the same
\* text: in that order, a later parser only after the earlier one failed,
\* and zero endpoints are never reported for such a text before both
\* fallbacks have been tried.
C16_FallbackChain ==
    (call.fn \in {"parseApiSpec", "processContent"} /\ returned # <<>>
     /\ call.args[1].kind # "spec") =>
        LET c == call.args[1]
            r == returned[1]
        IN  /\ c.kind = "yaml" =>
                  (r.tried = <<"json", "yaml">> /\ r.endpoints = c.endpoints)
            /\ c.kind # "yaml" =>
                  (r.tried = <<"json", "yaml", "html">> /\ r.endpoints = c.endpoints)

\* the JSON schema type name of a value
TypeName(v) ==
    CASE v = "string" -> "string"
      [] v = "integer" -> "integer"
      [] v = "fraction" -> "number"
      [] v = "boolean" -> "boolean"
      [] v = "null" -> "null"

\* C17: for markup holding a code or pre block with a cURL command that has
\* an -X METHOD option, a quoted URL or path and a -d JSON literal, the HTML
\* extractor returns an endpoint with that METHOD and the path component of
\* the URL whose requestBody.schema is an object schema with one typed
\* property per key of the literal.
C17_CurlBlock ==
    (call.fn = "parseHTMLDocumentation" /\ Len(call.args) = 1 /\ returned # <<>>) =>
        LET html == call.args[1] IN
        \E e \in returned[1] :
            /\ e.method = html.method
            /\ e.path = html.target.pathname
            /\ e.requestBody.type = "object"
            /\ Len(e.requestBody.properties) = Len(html.body)
            /\ \A i \in 1..Len(html.body) :
                  /\ e.requestBody.properties[i].name = html.body[i].key
                  /\ e.requestBody.properties[i].schema.type = TypeName(html.body[i].value)

\* the endpoints of a returned array, order apart
EndpointSet(r) == IF call.fn = "parseHTMLDocumentation" THEN r ELSE Range(r)

C19_OneToolPerEndpoint ==
    (call.fn = "enhanceWithOpenAI" /\ returned # <<>>) =>
        LET eps == call.args[1]
            tools == returned[1]
        IN  /\ Len(tools) = Len(eps)
            /\ \A i \in 1..Len(eps) :
                  i <= Len(tools) =>
                      (tools[i].method = eps[i].method /\ tools[i].path = eps[i].path)

LoopRequests(rs) == {q \in rs : q.phase = "loop"}

\* C21: while a fetch task of the current main-loop batch is unsettled, the
\* accumulated endpoint list, the frontier and the page count do not change
\* and no further task starts: the batch keeps its tasks, a settled task
\* keeps its result, and no new main-loop request is issued.
C21_BarrierWaves ==
    [][(cs = "batch" /\ \E i \in 1..Len(batch) : batch[i].st = "inflight") =>
          /\ allEndpoints' = allEndpoints
          /\ urlsToProcess' = urlsToProcess
          /\ processedPages' = processedPages
          /\ visitedUrls' = visitedUrls
          /\ LoopRequests(requests') = LoopRequests(requests)
          /\ Len(batch') = Len(batch)
          /\ \A i \in 1..Len(batch) :
                /\ batch'[i].url = batch[i].url
                /\ batch[i].st = "done" => batch'[i] = batch[i]]_vars

\* C21 witness: a batch of two in which one task has settled with endpoints
\* and links of its own while the other fetch is still pending, and the
\* shared list does not hold those endpoints yet.
C21_Witness ==
    /\ cs = "batch"
    /\ \E i, j \in 1..Len(batch) :
          /\ batch[i].st = "done"
          /\ Len(batch[i].endpoints) > 0
          /\ Len(batch[i].newUrls) > 0
          /\ batch[j].st = "inflight"
          /\ \A k \in 1..Len(batch[i].endpoints) :
                batch[i].endpoints[k] \notin Range(allEndpoints)

\* the frontier as the iteration that has just started found it: the URLs
\* of the batch it spliced off, then what the splice left
FrontierAtHead(b, rest) == [i \in 1..Len(b) |-> b[i].url] \o rest

IsProbe(q) == q.phase \in {"direct", "common"}

\* C23: every probe request is sent when the main loop has ended with an
\* empty endpoint list, and a placeholder endpoint is added only in the step
\* in which the probe of its prefix answered with an ok response.
C23_ProbesOnlyAfterLoop ==
    [][/\ \A q \in requests' \ requests :
             IsProbe(q) => cs' = "phase3" /\ allEndpoints' = <<>>
       /\ commonEndpoints' # commonEndpoints =>
             /\ cs = "phase3"
             /\ Content(CommonApiPaths[commonIdx]).ok
             /\ commonEndpoints' =
                  Append(commonEndpoints,
                         Endpoint("GET", CommonApiPaths[commonIdx], "common"))]_vars

\* the links of a settled batch that the merge may push: the first two of
\* each task, unless visited
MergeableLinks(tasks) ==
    {u \in UNION {Range(Slice0(tasks[i].newUrls, MAX_NEW_URLS_PER_PAGE)) :
                     i \in 1..Len(tasks)} : u \notin visitedUrls}

\* C24: a batch task whose fetch fails ends with no endpoints and no links
\* and adds exactly one log line; when a batch with a failed fetch is merged,
\* every endpoint of its other tasks is in the accumulated list, and if they
\* proposed an unvisited link while pages and time are left, the next batch
\* starts with such a link.
C24_FailedFetchIsIsolated ==
    [][/\ (cs = "batch" /\ failed' # failed) =>
             \E i \in 1..Len(batch) :
                /\ batch[i].st = "inflight"
                /\ failed' = failed \cup {batch[i].url}
                /\ batch' = [batch EXCEPT ![i] =
                                Task(batch[i].url, "done", <<>>, <<>>)]
                /\ Len(logs') = Len(logs) + 1
                /\ SubSeq(logs', 1, Len(logs)) = logs
       /\ (/\ cs = "batch"
           /\ processedPages' > processedPages
           /\ \E i \in 1..Len(batch) : batch[i].url \in failed) =>
             /\ \A i \in 1..Len(batch) : \A k \in 1..Len(batch[i].endpoints) :
                   batch[i].endpoints[k] \in Range(allEndpoints')
             /\ (/\ MergeableLinks(batch) # {}
                 /\ processedPages' < maxPages
                 /\ ~IsTimeoutApproaching) =>
                   /\ cs' = "batch"
                   /\ popped' > popped
                   /\ \E i \in 1..Len(batch') :
                         batch'[i].url \in MergeableLinks(batch)]_vars

\* C24 witness: in the second batch the fetch of /openapi.json failed and
\* /docs/guide was processed; its endpoints are in the list and the third
\* batch, made of its links, is under way.
C24_Witness ==
    /\ cs = "batch"
    /\ Len(batch) = 2
    /\ batch[2].url.path = "/api/v1"
    /\ batch[2].st = "inflight"
    /\ Url("https", HostA, "/openapi.json") \in failed
    /\ Url("https", HostA, "/openapi.json") \notin Range(sourceUrls)
    /\ Url("https", HostA, "/openapi.json") \in visitedUrls
    /\ "error_processing" \in Range(logs)
    /\ Endpoint("GET", "/users", "html") \in Range(allEndpoints)
    /\ Endpoint("DELETE", "/users", "html") \in Range(allEndpoints)

\* C25: when a crawl has returned endpoints to the handler, the sourceUrls it
\* returned are exactly the URLs the crawl pushed to its sourceUrls array,
\* that is the spec URLs whose direct probe yielded endpoints and the URLs
\* whose main-loop fetch resolved; in particular none whose fetch failed.
C25_SourceUrlsAreFetchedUrls ==
    (cs = "returned" /\ Len(endpoints) > 0) =>
        /\ \A u \in Range(sourceUrls) : u \in sourceUrlsOut
        /\ \A u \in sourceUrlsOut : u \in Range(sourceUrls)

\* C26: every fetch issued by the browser crawl and by the simple server
\* crawl, for a page and for a candidate spec file alike, goes to a URL with
\* the seed's hostname.
C26_FetchesStayOnSeedHost ==
    call.fn \in {"processUrlWithLLMCrawl", "part_000.crawlApiDocumentation"} =>
        \A i \in 1..Len(returned) : \A k \in 1..Len(returned[i].fetched) :
            returned[i].fetched[k].url.host = call.args[i].url.host

\* the caller's value clamped to the range 0..4
EffectiveMaxDepth(d) == IF d < 0 THEN 0 ELSE IF d > 4 THEN 4 ELSE d

\* C27: in a browser crawl that did not throw, the first fetch is the seed at
\* depth 0, every fetch belongs to a queue entry whose depth is at most the
\* caller's maximum depth clamped to 0..4, and on the site that is a chain
\* of pages the page one level below that depth is not fetched.
C27_DepthBound ==
    call.fn = "processUrlWithLLMCrawl" =>
        \A i \in 1..Len(returned) :
            LET r == returned[i]
                a == call.args[i]
                max == EffectiveMaxDepth(a.maxDepth)
            IN  ~r.threw =>
                  /\ r.fetched[1] = Fetch(a.url, 0, "page")
                  /\ \A k \in 1..Len(r.fetched) : r.fetched[k].depth \in 0..max
                  /\ a.site = "chain" =>
                        \A k \in 1..Len(r.fetched) :
                            r.fetched[k].url.path # DocsPath(max + 1)

\* C27 witness: a caller asked for depth 7 on the chain of pages; the page
\* at depth 4 was fetched and proposed the page at depth 5.
C27_Witness ==
    /\ call.fn = "processUrlWithLLMCrawl"
    /\ Len(returned) = 1
    /\ call.args[1].maxDepth = 7
    /\ call.args[1].site = "chain"
    /\ ~returned[1].threw
    /\ Fetch(Url("https", HostA, DocsPath(4)), 4, "page") \in Range(returned[1].fetched)
    /\ Rel(DocsPath(5)) \in Range(SiteDoc("chain", Url("https", HostA, DocsPath(4))).anchors)

\* C28: one call of parseHtmlForEndpoints of index.ts returns no two
\* endpoints with the same (method, path) pair.
C28_ExtractorNoDuplicates ==
    call.fn = "parseHtmlForEndpoints" =>
        \A i \in 1..Len(returned) : NoDuplicates(returned[i])

\* a step in which an iteration of the main loop starts: the while condition
\* held after phase 1 or after the merge of a settled batch
IterationStarts ==
    /\ cs' = "batch"
    /\ \/ cs = "phase1"
       \/ /\ cs = "batch"
          /\ \A i \in 1..Len(batch) : batch[i].st = "done"
          /\ batch' # batch \/ processedPages' # processedPages

\* a step in which the merge of a settled batch runs
MergeRuns ==
    /\ cs = "batch"
    /\ \A i \in 1..Len(batch) : batch[i].st = "done"
    /\ cs' # "batch" \/ batch' # batch \/ processedPages' # processedPages

====
